---- MODULE Spec2Model ----
(***************************************************************************)
(* The degreeworks scraper of anteater-api: Scraper.run() and Scraper.get()*)
(* (components/Scraper.ts) on top of DegreeworksClient                     *)
(* (components/DegreeworksClient.ts), with the specialization cache file.  *)
(*                                                                         *)
(* One activation of run() is a sequence of steps, each running from one   *)
(* await of the code to the next: a step consumes the response of the call *)
(* that is in flight and runs the code up to the next call it issues.      *)
(* Calls in flight are the elements of inflight.  JavaScript Maps are      *)
(* sequences of <<key, value>> pairs in insertion order.  Codes and titles *)
(* are strings; Chars gives the characters of a code where the code reads  *)
(* them.                                                                   *)
(***************************************************************************)
EXTENDS Integers, Sequences, FiniteSets, TLC

(* ------------------------------------------------------------------ *)
(* Bounds                                                              *)
(* ------------------------------------------------------------------ *)

\* run() activations started in one behaviour, over all Scraper instances
MaxRuns == 2

\* the longest list of report entries the catalogue answers with, where the
\* discovery is checked over every such list
MaxReports == 2

\* the longest block array of a response, where the client operations are
\* checked over every such response
MaxBlocks == 2

\* the most programs a run has parsed, where what main() builds for the
\* database is checked over every such result
MaxPrograms == 3

(* ------------------------------------------------------------------ *)
(* JavaScript Map, as a sequence of <<key, value>> pairs               *)
(* ------------------------------------------------------------------ *)

EmptyMap == << >>

MapKeys(m) == {m[i][1] : i \in 1..Len(m)}

MapHas(m, k) == \E i \in 1..Len(m) : m[i][1] = k

MapIndex(m, k) == CHOOSE i \in 1..Len(m) : m[i][1] = k

MapGet(m, k) == m[MapIndex(m, k)][2]

\* Map.prototype.set: an existing key keeps its position, a new key is appended
MapSet(m, k, v) ==
  IF MapHas(m, k) THEN [m EXCEPT ![MapIndex(m, k)] = <<k, v>>]
  ELSE Append(m, <<k, v>>)

RECURSIVE MapDelete(_, _)
MapDelete(m, k) ==
  IF m = << >> THEN << >>
  ELSE IF Head(m)[1] = k THEN MapDelete(Tail(m), k)
  ELSE <<Head(m)>> \o MapDelete(Tail(m), k)

RECURSIVE MapFromEntries(_)
\* new Map(entries): a repeated key keeps its first position and its last value
MapFromEntries(es) ==
  IF es = << >> THEN EmptyMap
  ELSE MapSet(MapFromEntries(SubSeq(es, 1, Len(es) - 1)), es[Len(es)][1], es[Len(es)][2])

\* the elements of a sequence
Range(s) == {s[k] : k \in 1..Len(s)}

(* ------------------------------------------------------------------ *)
(* Strings: the characters of the codes the program inspects           *)
(* ------------------------------------------------------------------ *)

Undefined == "undefined"

UpperCaseLetters ==
  {"A", "B", "C", "D", "E", "F", "G", "H", "I", "J", "K", "L", "M",
   "N", "O", "P", "Q", "R", "S", "T", "U", "V", "W", "X", "Y", "Z"}

\* the characters of each code of the universe
Chars(s) ==
  CASE s = "161"   -> <<"1", "6", "1">>
    [] s = "161A"  -> <<"1", "6", "1", "A">>
    [] s = "OACSC" -> <<"O", "A", "C", "S", "C">>
    [] s = "0A0"   -> <<"0", "A", "0">>
    [] s = "AHGE"  -> <<"A", "H", "G", "E">>
    [] s = "AHPE"  -> <<"A", "H", "P", "E">>
    [] s = "AHGEO" -> <<"A", "H", "G", "E", "O">>
    [] s = "AHPER" -> <<"A", "H", "P", "E", "R">>
    [] s = "BS"    -> <<"B", "S">>
    [] s = "BA"    -> <<"B", "A">>
    [] s = "MS"    -> <<"M", "S">>
    [] s = "B.S."  -> <<"B", ".", "S", ".">>
    [] s = "b.s."  -> <<"b", ".", "s", ".">>
    [] s = "B.A."  -> <<"B", ".", "A", ".">>
    [] s = "M.S."  -> <<"M", ".", "S", ".">>
    [] s = "M.I.M."  -> <<"M", ".", "I", ".", "M", ".">>
    [] s = "M.MGMT." -> <<"M", ".", "M", "G", "M", "T", ".">>
    [] s = "Ph.D." -> <<"P", "h", ".", "D", ".">>
    [] s = "F92"   -> <<"F", "9", "2">>
    [] s = "S05"   -> <<"S", "0", "5">>
    [] s = "F10"   -> <<"F", "1", "0">>
    [] s = "F40"   -> <<"F", "4", "0">>
    [] s = ""      -> << >>
    [] OTHER       -> <<s>>

\* String.prototype.startsWith("B")
StartsWithB(s) == Len(Chars(s)) > 0 /\ Chars(s)[1] = "B"

(* ------------------------------------------------------------------ *)
(* Blocks, programs and the audit parser                               *)
(* ------------------------------------------------------------------ *)

\* an entry of a rule array: a course rule, an exam-credit rule, a grouping
\* directive over nested rules, a nested sub-block, or a shape the parser does
\* not know
Rule(ruleType, label, ruleArray) ==
  [ruleType |-> ruleType, label |-> label, ruleArray |-> ruleArray]

\* a block of an audit response
Block(type, value, title) ==
  [requirementType |-> type, requirementValue |-> value, title |-> title,
   ruleArray |-> <<Rule("Course", value, << >>)>>]

NoBlock == [requirementType |-> "none"]

GroupingDirectives == {"AllOf", "AnyOf", "NoneOf"}

RECURSIVE ruleArrayToRequirements(_)

\* the group of a grouping directive around its parsed children, whatever
\* their number
GroupKeepsEmpty(rule) ==
  <<[type |-> rule.ruleType, children |-> ruleArrayToRequirements(rule.ruleArray)]>>

\* the group of a grouping directive around its parsed children; a group left
\* without children is dropped
Group(rule) ==
  LET children == ruleArrayToRequirements(rule.ruleArray) IN
    IF Len(children) = 0 THEN << >>
    ELSE <<[type |-> rule.ruleType, children |-> children]>>

\* what one entry contributes: its leaf, its group, the requirements of a
\* nested sub-block, or nothing for an entry of unknown shape
RuleToRequirements(rule) ==
  CASE rule.ruleType = "Course" -> <<[type |-> "CourseRequirement", courseId |-> rule.label]>>
    [] rule.ruleType = "Exam" -> <<[type |-> "ExamRequirement", examName |-> rule.label]>>
    [] rule.ruleType \in GroupingDirectives -> Group(rule)
    [] rule.ruleType = "Block" -> ruleArrayToRequirements(rule.ruleArray)
    [] OTHER -> << >>

\* AuditParser.ruleArrayToRequirements: the requirements of the entries, in
\* order
ruleArrayToRequirements(ruleArray) ==
  IF Len(ruleArray) = 0 THEN << >>
  ELSE RuleToRequirements(Head(ruleArray)) \o ruleArrayToRequirements(Tail(ruleArray))

\* AuditParser.parseBlock: the identity `school-TYPE-code-degree` split at "-",
\* the block's title as name, its parsed rules, and no specializations yet
parseBlock(school, programType, code, degreeType, block) ==
  [school |-> school, programType |-> programType, code |-> code,
   degreeType |-> degreeType, name |-> block.title,
   requirements |-> ruleArrayToRequirements(block.ruleArray), specs |-> << >>]

NoProgram == [programType |-> "none"]

\* DegreeWorksProgramId: what identifies a program
ProgramId(p) ==
  [school |-> p.school, programType |-> p.programType, code |-> p.code,
   degreeType |-> p.degreeType]

(* ------------------------------------------------------------------ *)
(* DegreeworksClient: what each operation makes of a response          *)
(* ------------------------------------------------------------------ *)

\* A response to an audit request: the body is an error envelope ("error"),
\* is not JSON ("malformed"), or carries a block array ("blocks").
ErrorEnvelope == [kind |-> "error"]
Malformed == [kind |-> "malformed"]
Blocks(bs) == [kind |-> "blocks", blockArray |-> bs]

\* res.json().catch(() => ({ error: "" })): a body that is not JSON is read as
\* an error envelope
Json(res) == IF res.kind = "malformed" THEN ErrorEnvelope ELSE res

\* blockArray.find(...): the first block among those the predicate accepts
FindBlock(blockArray, accepted) ==
  IF \E k \in 1..Len(blockArray) : blockArray[k] \in accepted
  THEN blockArray[CHOOSE k \in 1..Len(blockArray) :
                    /\ blockArray[k] \in accepted
                    /\ \A j \in 1..(k - 1) : blockArray[j] \notin accepted]
  ELSE NoBlock

NoRequirements == [found |-> FALSE]

\* DegreeworksClient.getUgradRequirements, from the response on
getUgradRequirements(res) ==
  LET json == Json(res) IN
  IF json.kind = "error" THEN NoRequirements
  ELSE
    LET blocks == Range(json.blockArray)
        ucRequirements ==
          FindBlock(json.blockArray, {b \in blocks : b.requirementType = "SCHOOL"})
        geRequirements ==
          FindBlock(json.blockArray, {b \in blocks : b.requirementType = "PROGRAM"})
        honorsFourRequirements ==
          FindBlock(json.blockArray, {b \in blocks : /\ b.requirementType = "OTHER"
                                                     /\ b.requirementValue = "CHP"})
    IN IF ucRequirements = NoBlock THEN NoRequirements
       ELSE IF geRequirements = NoBlock THEN NoRequirements
       ELSE [found |-> TRUE, UC |-> ucRequirements, GE |-> geRequirements,
             CHC4 |-> honorsFourRequirements]

NoAudit == [found |-> FALSE]

\* DegreeworksClient.getMajorAudit, from the response on
getMajorAudit(res, majorCode, college) ==
  LET json == Json(res) IN
  IF json.kind = "error" THEN NoAudit
  ELSE
    LET blocks == Range(json.blockArray) IN
    [found |-> TRUE,
     college |-> FindBlock(json.blockArray,
                           {x \in blocks : /\ x.requirementType = "COLLEGE"
                                           /\ x.requirementValue = college}),
     major |-> FindBlock(json.blockArray,
                         {x \in blocks : /\ x.requirementType = "MAJOR"
                                         /\ x.requirementValue = majorCode})]

\* DegreeworksClient.getMinorAudit, from the response on
getMinorAudit(res, minorCode) ==
  LET json == Json(res) IN
  IF json.kind = "error" THEN NoBlock
  ELSE FindBlock(json.blockArray,
                 {x \in Range(json.blockArray) : /\ x.requirementType = "MINOR"
                                                 /\ x.requirementValue = minorCode})

\* the specialization block taken by its type alone
getSpecAuditAnyValue(res, specCode) ==
  LET json == Json(res) IN
  IF json.kind = "error" THEN NoBlock
  ELSE FindBlock(json.blockArray,
                 {x \in Range(json.blockArray) : x.requirementType \in {"SPEC", "OTHER"}})

\* DegreeworksClient.getSpecAudit, from the response on
getSpecAudit(res, specCode) ==
  LET json == Json(res) IN
  IF json.kind = "error" THEN NoBlock
  ELSE FindBlock(json.blockArray,
                 {x \in Range(json.blockArray) : /\ x.requirementType \in {"SPEC", "OTHER"}
                                                 /\ x.requirementValue = specCode})

\* DegreeworksClient.getMapping, from the response on: the entries as a Map
getMapping(entries) == MapFromEntries(entries)

\* the operations of DegreeworksClient: each awaits its fetch and then sleep()
ClientOperations ==
  {"getUgradRequirements", "getMajorAudit", "getMinorAudit", "getSpecAudit", "getMapping"}

\* a call in flight: the client operation (or catalogue fetch), its arguments,
\* the activation of run() that made it, and how far it is: the request is
\* out ("fetch") or the response is there and the delay is running ("sleep")
Call(op, args, run) == [op |-> op, args |-> args, run |-> run, phase |-> "fetch"]

\* the call with its response received: `await this.sleep()` has started
Sleeping(call) == [call EXCEPT !.phase = "sleep"]

(* ------------------------------------------------------------------ *)
(* The upstream: vocabularies, catalogue and the responses it can give *)
(* ------------------------------------------------------------------ *)

Null == "null"

Report(schoolCode, majorCode, endTermYyyyst, degreeCode) ==
  [school |-> [schoolCode |-> schoolCode],
   major |-> [majorCode |-> majorCode, endTermYyyyst |-> endTermYyyyst],
   degree |-> [degreeCode |-> degreeCode]]

AwardType(degreeCode, degreeShort) ==
  [degreeCode |-> degreeCode, degreeShort |-> degreeShort]

\* one major code offered with two degrees, one specialization that follows
\* the suffix convention and the irregular one
WorldChemistry ==
  [degrees |-> << <<"BS", "B.S.">>, <<"MS", "M.S.">> >>,
   majors |-> << <<"161", "Chemistry">> >>,
   minors |-> << <<"0A0", "Minor">> >>,
   specializations |-> << <<"161A", "Spec A">>, <<"OACSC", "ACS Certification">> >>,
   awardTypes |-> << AwardType("1", "B.S."), AwardType("2", "M.S.") >>,
   reports |-> << Report("55", "161", Null, "1"), Report("55", "161", "F92", "1"),
                  Report("55", "161", Null, Null), Report("55", "161", "", "2") >>,
   majorTitles |-> {"Major in Chemistry", "Major in Art History"},
   minorTitles |-> {"Minor in Chemistry"},
   colleges |-> {"55"},
   ucRules |-> <<Rule("Course", "UC", << >>)>>,
   session |-> "valid", forwardYear |-> TRUE]

\* the two major codes the specializations AHGEO and AHPER point at by the
\* suffix convention, no minors, and the forward academic year not there yet
WorldArtHistory ==
  [degrees |-> << <<"BA", "B.A.">> >>,
   majors |-> << <<"AHGE", "Art History">>, <<"AHPE", "Art History">> >>,
   minors |-> << >>,
   specializations |-> << <<"AHGEO", "Geography">>, <<"AHPER", "Period">> >>,
   awardTypes |-> << AwardType("1", "B.A.") >>,
   reports |-> << Report("20", "AHGE", Null, "1"), Report("20", "AHPE", Null, "1") >>,
   majorTitles |-> {"Major in Art History", "Major in Art"},
   minorTitles |-> {},
   colleges |-> {},
   ucRules |-> <<Rule("Course", "UC", << >>)>>,
   session |-> "valid", forwardYear |-> FALSE]

\* the same upstream asked with a session that is not valid: no audit for
\* either academic year
WorldExpired == [WorldChemistry EXCEPT !.session = "expired"]

\* the catalogue lists the major 161 with the same degree under two schools,
\* the audits of both minors carry a block of the same title, and there are
\* no specializations
WorldTwoSchools ==
  [degrees |-> << <<"BS", "B.S.">> >>,
   majors |-> << <<"161", "Chemistry">> >>,
   minors |-> << <<"0A0", "Minor">>, <<"0B0", "Minor, honors">> >>,
   specializations |-> << >>,
   awardTypes |-> << AwardType("1", "B.S.") >>,
   reports |-> << Report("55", "161", Null, "1"), Report("60", "161", Null, "1") >>,
   majorTitles |-> {"Major in Chemistry", "Major in Chemical Engineering"},
   minorTitles |-> {"Minor in Chemistry"},
   colleges |-> {},
   ucRules |-> <<Rule("Course", "UC", << >>)>>,
   session |-> "valid", forwardYear |-> TRUE]

Worlds == {WorldChemistry, WorldArtHistory, WorldExpired, WorldTwoSchools}

\* what the upstream gives the probe: without a valid session, or while the
\* forward academic year is not there yet, no audit
ProbeResponses(w) ==
  IF w.session = "valid" /\ w.forwardYear
  THEN {Blocks(<<Block("MAJOR", "201", "Major in Computer Science")>>), Blocks(<< >>)}
  ELSE {ErrorEnvelope, Malformed}

\* of the responses to an audit request, those the upstream gives: without a
\* valid session none carries blocks
Answers(w, responses) ==
  IF w.session = "valid" THEN responses
  ELSE {res \in responses : res.kind \in {"error", "malformed"}}

UcBlock(w) == [Block("SCHOOL", "UC", "University") EXCEPT !.ruleArray = w.ucRules]

UgradResponses(w) ==
  {ErrorEnvelope, Malformed,
   Blocks(<<Block("DEGREE", "BS", "Degree"), UcBlock(w),
            Block("PROGRAM", "GE", "General Education")>>),
   Blocks(<<UcBlock(w)>>)}

MajorAuditResponses(w, majorCode, college) ==
  {ErrorEnvelope, Malformed, Blocks(<< >>)}
  \cup {Blocks((IF college \in w.colleges
                THEN <<Block("COLLEGE", college, "College")>> ELSE << >>)
               \o <<Block("MAJOR", majorCode, t)>>) : t \in w.majorTitles}

MinorAuditResponses(w, minorCode) ==
  {ErrorEnvelope, Malformed}
  \cup {Blocks(<<Block("MINOR", minorCode, t)>>) : t \in w.minorTitles}

SpecAuditResponses(w, specCode) ==
  {ErrorEnvelope, Malformed, Blocks(<<Block("SPEC", specCode, "Specialization")>>)}

(* ------------------------------------------------------------------ *)
(* Discovery of the valid (school, major, degree) triplets             *)
(* ------------------------------------------------------------------ *)

UpperAlphabet ==
  <<"A", "B", "C", "D", "E", "F", "G", "H", "I", "J", "K", "L", "M",
    "N", "O", "P", "Q", "R", "S", "T", "U", "V", "W", "X", "Y", "Z">>

LowerAlphabet ==
  <<"a", "b", "c", "d", "e", "f", "g", "h", "i", "j", "k", "l", "m",
    "n", "o", "p", "q", "r", "s", "t", "u", "v", "w", "x", "y", "z">>

LowerChar(ch) ==
  IF \E k \in 1..Len(UpperAlphabet) : UpperAlphabet[k] = ch
  THEN LowerAlphabet[CHOOSE k \in 1..Len(UpperAlphabet) : UpperAlphabet[k] = ch]
  ELSE ch

\* String.prototype.toLowerCase, as the characters of the result
toLowerCase(s) == [k \in 1..Len(Chars(s)) |-> LowerChar(Chars(s)[k])]

\* Scraper.transformDegreeShort
transformDegreeShort(input) == IF input = "M.MGMT." THEN "M.I.M." ELSE input

\* the Map of award types by degree code
awardTypesMap(awardTypes) ==
  MapFromEntries([k \in 1..Len(awardTypes) |-> <<awardTypes[k].degreeCode, awardTypes[k]>>])

\* Scraper.findDwNameFor raises a TypeError when the filter runs (the degrees
\* vocabulary is not empty) on a degree code the award types do not list:
\* transformDegreeShort(undefined) is undefined, and undefined has no toLowerCase
findDwNameForThrows(dwDegrees, awardTypes, catalogueDegree) ==
  /\ dwDegrees # EmptyMap
  /\ ~MapHas(awardTypesMap(awardTypes), catalogueDegree.degree.degreeCode)

\* Scraper.findDwNameFor: the keys of the degrees whose name is the award's
\* short name, compared in lower case
findDwNameFor(dwDegrees, awardTypes, catalogueDegree) ==
  LET short == MapGet(awardTypesMap(awardTypes), catalogueDegree.degree.degreeCode).degreeShort
  IN SelectSeq([k \in 1..Len(dwDegrees) |-> dwDegrees[k]],
               LAMBDA e : toLowerCase(e[2]) = toLowerCase(transformDegreeShort(short)))

Digits == <<"0", "1", "2", "3", "4", "5", "6", "7", "8", "9">>

DigitValue(ch) == (CHOOSE k \in 1..Len(Digits) : Digits[k] = ch) - 1

\* `endTermYyyyst.slice(1)` read as a number: the two digits after the term letter
TwoDigitYear(endTermYyyyst) ==
  LET yy == Tail(Chars(endTermYyyyst))
  IN 10 * DigitValue(yy[1]) + DigitValue(yy[2])

\* `new Date("yy-01-01")`: the string is not in the date-time format of the
\* language (its year has two digits), so what it means is left to the engine.
\* An engine reads it as a legacy date, month first unless the first number
\* cannot be a day ("monthFirst"), or year first throughout ("yearFirst"),
\* or rejects it ("invalid"); a legacy date is local time, so the zone of the
\* machine, east or west of Greenwich, is part of the answer
DateReadings == {"monthFirst", "yearFirst", "invalid"}

DateParsers == [reading : DateReadings, zone : {"east", "west"}]

\* a two-digit year of a legacy date: 0 to 49 is 2000 to 2049, 50 to 99 is
\* 1950 to 1999
FullYear(yy) == IF yy <= 49 THEN 2000 + yy ELSE 1900 + yy

\* the local dates <<year, month, day>> the string "yy-01-01" is read as: none
\* is an Invalid Date. Month first, the three numbers are month, day and year
\* unless the first is not a day of a month (1 to 31), and a month is 1 to 12
LocalDate(reading, yy) ==
  CASE reading = "invalid" -> {}
    [] reading = "yearFirst" -> {<<FullYear(yy), 1, 1>>}
    [] reading = "monthFirst" ->
         IF yy \notin 1..31 THEN {<<FullYear(yy), 1, 1>>}
         ELSE IF yy \in 1..12 THEN {<<FullYear(1), yy, 1>>}
         ELSE {}

\* getUTCFullYear of local midnight on that date: east of Greenwich the first
\* of January is still the year before in universal time
UTCFullYears(parser, yy) ==
  {IF parser.zone = "east" /\ d[2] = 1 /\ d[3] = 1 THEN d[1] - 1 ELSE d[1] :
     d \in LocalDate(parser.reading, yy)}

\* `new Date(yy + "-01-01").getUTCFullYear()` for the two-digit year of an end
\* term: the year, or none (NaN, which no comparison accepts)
EndTermYear(parser, endTermYyyyst) == UTCFullYears(parser, TwoDigitYear(endTermYyyyst))

CutoffYear == 2006

\* the filter without its end-term condition
PassesFilterNoCutoff(majors, ent, parser) ==
  /\ ent.degree.degreeCode # Null
  /\ ent.major.majorCode \in majors

\* the filter of Scraper.discoverValidDegrees
PassesFilter(majors, ent, parser) ==
  /\ ent.degree.degreeCode # Null
  /\ \/ ent.major.endTermYyyyst \in {Null, ""}
     \/ \E year \in EndTermYear(parser, ent.major.endTermYyyyst) : year >= CutoffYear
  /\ ent.major.majorCode \in majors

\* the triplets of one report entry
TripletsOf(dwDegrees, awardTypes, ent) ==
  LET names == findDwNameFor(dwDegrees, awardTypes, ent)
  IN [k \in 1..Len(names) |-> <<ent.school.schoolCode, ent.major.majorCode, names[k][1]>>]

RECURSIVE FlatMapTriplets(_, _, _, _, _)
FlatMapTriplets(dwDegrees, majors, awardTypes, reports, parser) ==
  IF reports = << >> THEN << >>
  ELSE (IF PassesFilter(majors, Head(reports), parser)
        THEN TripletsOf(dwDegrees, awardTypes, Head(reports)) ELSE << >>)
       \o FlatMapTriplets(dwDegrees, majors, awardTypes, Tail(reports), parser)

\* Scraper.discoverValidDegrees, from the two responses on
discoverValidDegrees(dwDegrees, majors, awardTypes, reports, parser) ==
  IF \E k \in 1..Len(reports) :
       /\ PassesFilter(majors, reports[k], parser)
       /\ findDwNameForThrows(dwDegrees, awardTypes, reports[k])
  THEN [threw |-> TRUE, triplets |-> << >>]
  ELSE [threw |-> FALSE,
        triplets |-> FlatMapTriplets(dwDegrees, majors, awardTypes, reports, parser)]

(* ------------------------------------------------------------------ *)
(* The specialization cache and its file                               *)
(* ------------------------------------------------------------------ *)

\* in memory an entry is null, or a parent and a block; the parent is either
\* the program object held by parsedPrograms under `title` (live) or an object
\* of its own that JSON.parse made (copy)
NullEntry == [kind |-> "null"]
LiveEntry(title, block) == [kind |-> "live", title |-> title, block |-> block]
CopyEntry(parent, block) == [kind |-> "copy", parent |-> parent, block |-> block]

\* in the file an entry is the JSON null or the JSON object {parent, block}
JsonNull == [json |-> "null"]
JsonEntry(parent, block) == [json |-> "object", parent |-> parent, block |-> block]

EmptyObject == [code \in {} |-> JsonNull]

\* the file as `flag: "a+"` creates it
EmptyFile == [empty |-> TRUE, object |-> EmptyObject]

\* the program object a parent reference stands for
Deref(programs, ref) ==
  IF ref.kind = "live" THEN MapGet(programs, ref.title).major ELSE ref.parent

\* JSON.stringify(Object.fromEntries(specializationCache)): every parent is
\* written as the object is at the time of the write
Serialize(cache, programs) ==
  [empty |-> FALSE,
   object |-> [code \in DOMAIN cache |->
                 IF cache[code].kind = "null" THEN JsonNull
                 ELSE JsonEntry(Deref(programs, cache[code]), cache[code].block)]]

\* a load that leaves out the entries that are null in the file
DeserializeDropsNull(f) ==
  LET object == IF f.empty THEN EmptyObject ELSE f.object
  IN [code \in {c \in DOMAIN object : object[c].json # "null"} |->
        CopyEntry(object[code].parent, object[code].block)]

\* new Map(Object.entries(JSON.parse(s === "" ? "{}" : s)))
Deserialize(f) ==
  LET object == IF f.empty THEN EmptyObject ELSE f.object
  IN [code \in DOMAIN object |->
        IF object[code].json = "null" THEN NullEntry
        ELSE CopyEntry(object[code].parent, object[code].block)]

CacheSet(cache, code, entry) ==
  [x \in DOMAIN cache \cup {code} |-> IF x = code THEN entry ELSE cache[x]]

\* /^(.+)[A-Z]$/: at least one character, then one upper-case letter, at the end
MatchesSuffixedMajorCode(specCode) ==
  /\ Len(Chars(specCode)) >= 2
  /\ Chars(specCode)[Len(Chars(specCode))] \in UpperCaseLetters

maybeMajorCode(specCode) == SubSeq(Chars(specCode), 1, Len(Chars(specCode)) - 1)

\* the exception left out: OACSC is looked up by the suffix convention
specializationParentCandidatesNoException(programs, specCode) ==
  IF MatchesSuffixedMajorCode(specCode)
  THEN LET matching == SelectSeq(programs,
                         LAMBDA e : Chars(e[2].major.code) = maybeMajorCode(specCode))
       IN [k \in 1..Len(matching) |-> matching[k][1]]
  ELSE << >>

\* every parsed program is a candidate of a suffixed specialization code
specializationParentCandidatesAnyCode(programs, specCode) ==
  IF specCode = "OACSC"
  THEN IF MapHas(programs, "Major in Chemistry") THEN <<"Major in Chemistry">> ELSE << >>
  ELSE IF MatchesSuffixedMajorCode(specCode)
  THEN [k \in 1..Len(programs) |-> programs[k][1]]
  ELSE << >>

\* Scraper.specializationParentCandidates: the candidates are program objects
\* of parsedPrograms, given here by the titles they are stored under
specializationParentCandidates(programs, specCode) ==
  IF specCode = "OACSC"
  THEN IF MapHas(programs, "Major in Chemistry") THEN <<"Major in Chemistry">> ELSE << >>
  ELSE IF MatchesSuffixedMajorCode(specCode)
  THEN LET matching == SelectSeq(programs,
                         LAMBDA e : Chars(e[2].major.code) = maybeMajorCode(specCode))
       IN [k \in 1..Len(matching) |-> matching[k][1]]
  ELSE << >>

(* ------------------------------------------------------------------ *)
(* State                                                               *)
(* ------------------------------------------------------------------ *)

VARIABLES
  world,                    \* the upstream's data
  catalogYear,              \* DegreeworksClient.catalogYear
  file,                     \* spec-cache-<catalogYear>.json: code -> entry
  pc,                       \* where the latest call of run() stands
  inflight,                 \* the calls issued and not yet answered
  runs,                     \* run() activations started so far
  done,                     \* Scraper.done
  degrees,                  \* Scraper.degrees
  majorPrograms,            \* Scraper.majorPrograms
  minorPrograms,            \* Scraper.minorPrograms
  knownSpecializations,     \* Scraper.knownSpecializations
  specializationCache,      \* Scraper.specializationCache
  parsedUgradRequirements,  \* Scraper.parsedUgradRequirements
  parsedMinorPrograms,      \* Scraper.parsedMinorPrograms
  parsedPrograms,           \* Scraper.parsedPrograms
  parsedSpecializations,    \* Scraper.parsedSpecializations
  degreesAwarded,           \* Scraper.degreesAwarded
  frame,                    \* the local variables of run() and its callees
  lastGet,                  \* outcome of the latest call of get()
  hist,                     \* what the current activation has done so far
  reply,                    \* a client operation on its own: response and result
  persisted                 \* what main() has built for the database

instance ==
  <<done, degrees, majorPrograms, minorPrograms, knownSpecializations,
    specializationCache, parsedUgradRequirements, parsedMinorPrograms,
    parsedPrograms, parsedSpecializations, degreesAwarded>>

vars ==
  <<world, catalogYear, file, pc, inflight, runs, instance, frame, lastGet, hist, reply,
    persisted>>

EmptyCache == [code \in {} |-> Null]

\* client line 29: the calendar year of the clock
CurrentYear == 2026

\* client line 30: the academic year that starts this calendar year
ForwardCatalogYear == <<CurrentYear, CurrentYear + 1>>

\* client line 33: the academic year that started the previous calendar year
PriorCatalogYear == <<CurrentYear - 1, CurrentYear>>

\* client line 31: the probe, the audit of the B.S. in Computer Science
Probe(run) == Call("getMajorAudit", <<"BS", "U", "201">>, run)

\* the locals when no loop is running
NoFrame ==
  [validDegrees |-> << >>, awardTypes |-> << >>, reports |-> << >>, i |-> 0,
   ret |-> EmptyMap, majorCandidates |-> << >>, c |-> 0]

\* what the current activation has done: whether getUgradRequirements gave the
\* requirements ("found") or nothing ("absent"), the title each major audit so far
\* returned (Null for none), the same for the minor audits, the cache as it
\* loaded it, the specialization codes it asked the audit about, the codes
\* whose iteration wrote the cache file, the codes it resolved itself, and
\* what it raised: a rejected fetch ("fetch"), an unusable body ("body"), a
\* TypeError, or the error of line 307 ("degreeType")
NoHist ==
  [ugrad |-> "none", yielded |-> << >>, minorYielded |-> << >>,
   loaded |-> EmptyCache, hasLoaded |-> FALSE, requested |-> {},
   wrote |-> {}, resolved |-> {}, raised |-> "none"]

\* nothing has been built for the database
NoData == [built |-> FALSE]

\* no client operation is looked at on its own
NoReply == [op |-> "none", args |-> << >>, res |-> ErrorEnvelope, returned |-> FALSE]

\* Scraper.new has made the client and the client has sent its probe
Init ==
  /\ world \in Worlds
  /\ catalogYear = ForwardCatalogYear
  /\ file = EmptyFile
  /\ pc = "bootstrap"
  /\ inflight = {Probe(0)}
  /\ runs = 0
  /\ done = FALSE
  /\ degrees = EmptyMap
  /\ majorPrograms = {}
  /\ minorPrograms = << >>
  /\ knownSpecializations = EmptyMap
  /\ specializationCache = EmptyCache
  /\ parsedUgradRequirements = EmptyMap
  /\ parsedMinorPrograms = EmptyMap
  /\ parsedPrograms = EmptyMap
  /\ parsedSpecializations = EmptyMap
  /\ degreesAwarded = EmptyMap
  /\ frame = NoFrame
  /\ lastGet = "none"
  /\ hist = NoHist
  /\ reply = NoReply
  /\ persisted = NoData

(* ------------------------------------------------------------------ *)
(* run()                                                               *)
(* ------------------------------------------------------------------ *)

\* a client operation that returns as soon as its response is there
AwaitedWithoutDelay(op) == {call \in inflight : call.op = op /\ call.run = runs}

\* the call of the current activation for operation op that is about to
\* return: a client operation returns when its delay is over, a catalogue
\* fetch when its response is there
Awaited(op) ==
  {call \in inflight :
     /\ call.op = op /\ call.run = runs
     /\ call.phase = (IF op \in ClientOperations THEN "sleep" ELSE "fetch")}

\* a request sent together with the request for the next triplet's audit
IssueAndPrefetch(op, args) ==
  inflight \cup {Call(op, args, runs), Call("getMajorAudit", <<"next">>, runs)}

\* a client operation is called: its request goes out
Issue(op, args) == inflight \cup {Call(op, args, runs)}

\* an exception leaves run(): the activation is over, `done` stays as it is;
\* during Scraper.new it leaves Scraper.new, and there is no instance
RaiseAs(call, what) ==
  /\ pc' = IF pc = "bootstrap" THEN "failed" ELSE "threw"
  /\ inflight' = inflight \ {call}
  /\ frame' = NoFrame
  /\ hist' = [hist EXCEPT !.raised = what]
  /\ UNCHANGED <<world, reply, persisted, catalogYear, file, runs, instance, lastGet>>

\* the body of a response cannot be used: res.json() rejects (line 200 of the
\* client, lines 86 and 108), or the schema refuses it (lines 112, 116)
Raise(call) == RaiseAs(call, "body")

\* client lines 31-36 and Scraper.ts 423-426: the probe returns; without data
\* the prior academic year is taken, and Scraper.new returns the instance
BootstrapResponse ==
  /\ pc = "bootstrap"
  /\ \E call \in Awaited("getMajorAudit"), res \in ProbeResponses(world) :
       LET dataThisYear == getMajorAudit(res, "201", Undefined) IN
       /\ catalogYear' = IF ~dataThisYear.found THEN PriorCatalogYear ELSE catalogYear
       /\ pc' = "idle"
       /\ inflight' = inflight \ {call}
  /\ UNCHANGED <<world, reply, persisted, file, runs, instance, frame, lastGet, hist>>

\* a guard that never rejects a call
AlreadyFinishedNever == FALSE

\* line 223: the guard of run()
AlreadyFinished == done

\* run() is called while no activation is in progress
RunCall ==
  /\ pc \in {"idle", "returned", "threw", "done", "rejected"}
  /\ runs < MaxRuns
  /\ runs' = runs + 1
  /\ IF AlreadyFinished
     THEN /\ pc' = "rejected"
          /\ UNCHANGED <<inflight, frame, hist>>
     ELSE /\ pc' = "ugrad"
          /\ inflight' = inflight \cup {Call("getUgradRequirements", << >>, runs')}
          /\ frame' = NoFrame
          /\ hist' = NoHist
  /\ UNCHANGED <<world, reply, persisted, catalogYear, file, instance, lastGet>>

\* the early return of line 229 left out: the run goes on without requirements
UgradResponseContinues ==
  /\ pc = "ugrad"
  /\ \E call \in Awaited("getUgradRequirements"), res \in Answers(world, UgradResponses(world)) :
       LET ugradReqs == getUgradRequirements(res) IN
         IF ~ugradReqs.found
         THEN /\ pc' = "degrees"
              /\ inflight' = (inflight \ {call})
                               \cup {Call("getMapping", <<"degrees">>, runs)}
              /\ hist' = [hist EXCEPT !.ugrad = "absent"]
              /\ UNCHANGED <<world, reply, persisted, catalogYear, file, runs, instance, frame, lastGet>>
         ELSE \* line 232 destructures the result as an array; the object the
              \* client of this source returns is not iterable (TypeError), a
              \* client returning the pair binds both blocks
              \/ /\ pc' = "threw"
                 /\ inflight' = inflight \ {call}
                 /\ hist' = [hist EXCEPT !.ugrad = "found", !.raised = "TypeError"]
                 /\ UNCHANGED <<world, reply, persisted, catalogYear, file, runs, instance, frame, lastGet>>
              \/ /\ parsedUgradRequirements' =
                      MapSet(MapSet(parsedUgradRequirements, "UC",
                                    ruleArrayToRequirements(ugradReqs.UC.ruleArray)),
                             "GE", ruleArrayToRequirements(ugradReqs.GE.ruleArray))
                 /\ pc' = "degrees"
                 /\ inflight' = (inflight \ {call})
                                  \cup {Call("getMapping", <<"degrees">>, runs)}
                 /\ hist' = [hist EXCEPT !.ugrad = "found"]
                 /\ UNCHANGED <<world, reply, persisted, catalogYear, file, runs, done, degrees, majorPrograms,
                                minorPrograms, knownSpecializations, specializationCache,
                                parsedMinorPrograms, parsedPrograms, parsedSpecializations,
                                degreesAwarded, frame, lastGet>>

\* lines 226-243: the undergraduate requirements arrive
UgradResponse ==
  /\ pc = "ugrad"
  /\ \E call \in Awaited("getUgradRequirements"), res \in Answers(world, UgradResponses(world)) :
       LET ugradReqs == getUgradRequirements(res) IN
         IF ~ugradReqs.found
         THEN /\ pc' = "returned"
              /\ inflight' = inflight \ {call}
              /\ hist' = [hist EXCEPT !.ugrad = "absent"]
              /\ UNCHANGED <<world, reply, persisted, catalogYear, file, runs, instance, frame, lastGet>>
         ELSE \* line 232 destructures the result as an array; the object the
              \* client of this source returns is not iterable (TypeError), a
              \* client returning the pair binds both blocks
              \/ /\ pc' = "threw"
                 /\ inflight' = inflight \ {call}
                 /\ hist' = [hist EXCEPT !.ugrad = "found", !.raised = "TypeError"]
                 /\ UNCHANGED <<world, reply, persisted, catalogYear, file, runs, instance, frame, lastGet>>
              \/ /\ parsedUgradRequirements' =
                      MapSet(MapSet(parsedUgradRequirements, "UC",
                                    ruleArrayToRequirements(ugradReqs.UC.ruleArray)),
                             "GE", ruleArrayToRequirements(ugradReqs.GE.ruleArray))
                 /\ pc' = "degrees"
                 /\ inflight' = (inflight \ {call})
                                  \cup {Call("getMapping", <<"degrees">>, runs)}
                 /\ hist' = [hist EXCEPT !.ugrad = "found"]
                 /\ UNCHANGED <<world, reply, persisted, catalogYear, file, runs, done, degrees, majorPrograms,
                                minorPrograms, knownSpecializations, specializationCache,
                                parsedMinorPrograms, parsedPrograms, parsedSpecializations,
                                degreesAwarded, frame, lastGet>>

\* lines 243-245: the degree vocabulary arrives
DegreesResponse ==
  /\ pc = "degrees"
  /\ \E call \in Awaited("getMapping") :
       \/ Raise(call)
       \/ /\ degrees' = getMapping(world.degrees)
          /\ pc' = "majors"
          /\ inflight' = (inflight \ {call}) \cup {Call("getMapping", <<"majors">>, runs)}
          /\ UNCHANGED <<world, reply, persisted, catalogYear, file, runs, done, majorPrograms, minorPrograms,
                         knownSpecializations, specializationCache,
                         parsedUgradRequirements, parsedMinorPrograms, parsedPrograms,
                         parsedSpecializations, degreesAwarded, frame, lastGet, hist>>

\* discovery started without being awaited: the minor vocabulary is asked for
\* while the catalogue fetches are in flight
MajorsResponseNoAwait ==
  /\ pc = "majors"
  /\ \E call \in Awaited("getMapping") :
       \/ Raise(call)
       \/ /\ majorPrograms' = MapKeys(getMapping(world.majors))
          /\ pc' = "minors"
          /\ inflight' = (inflight \ {call})
                           \cup {Call("awardTypes", << >>, runs), Call("reports", << >>, runs),
                                 Call("getMapping", <<"minors">>, runs)}
          /\ UNCHANGED <<world, reply, persisted, catalogYear, file, runs, done, degrees, minorPrograms,
                         knownSpecializations, specializationCache,
                         parsedUgradRequirements, parsedMinorPrograms, parsedPrograms,
                         parsedSpecializations, degreesAwarded, frame, lastGet, hist>>

\* lines 245-249 and 85-109: the major vocabulary arrives; discovery issues
\* both catalogue fetches at once (Promise.all)
MajorsResponse ==
  /\ pc = "majors"
  /\ \E call \in Awaited("getMapping") :
       \/ Raise(call)
       \/ /\ majorPrograms' = MapKeys(getMapping(world.majors))
          /\ pc' = "discovery"
          /\ inflight' = (inflight \ {call})
                           \cup {Call("awardTypes", << >>, runs), Call("reports", << >>, runs)}
          /\ UNCHANGED <<world, reply, persisted, catalogYear, file, runs, done, degrees, minorPrograms,
                         knownSpecializations, specializationCache,
                         parsedUgradRequirements, parsedMinorPrograms, parsedPrograms,
                         parsedSpecializations, degreesAwarded, frame, lastGet, hist>>

\* lines 85-143 and 251: one catalogue response arrives; with both there, the
\* triplets are computed and the minor vocabulary is asked for
DiscoveryResponse ==
  /\ pc = "discovery"
  /\ \E call \in Awaited("awardTypes") \cup Awaited("reports"), parser \in DateParsers :
       \/ Raise(call)
       \/ LET got == IF call.op = "awardTypes"
                     THEN [frame EXCEPT !.awardTypes = world.awardTypes]
                     ELSE [frame EXCEPT !.reports = world.reports]
              rest == (Awaited("awardTypes") \cup Awaited("reports")) \ {call}
              found == discoverValidDegrees(degrees, majorPrograms,
                                            got.awardTypes, got.reports, parser)
          IN IF rest # {}
             THEN /\ frame' = got
                  /\ inflight' = inflight \ {call}
                  /\ UNCHANGED <<world, reply, persisted, catalogYear, file, pc, runs, instance, lastGet, hist>>
             ELSE IF found.threw THEN RaiseAs(call, "TypeError")
             ELSE /\ frame' = [NoFrame EXCEPT !.validDegrees = found.triplets]
                  /\ pc' = "minors"
                  /\ inflight' = (inflight \ {call})
                                   \cup {Call("getMapping", <<"minors">>, runs)}
                  /\ UNCHANGED <<world, reply, persisted, catalogYear, file, runs, instance, lastGet, hist>>

\* lines 251-255: the minor vocabulary arrives
MinorsResponse ==
  /\ pc = "minors"
  /\ \E call \in Awaited("getMapping") :
       \/ Raise(call)
       \/ /\ minorPrograms' = [k \in 1..Len(getMapping(world.minors)) |->
                                 getMapping(world.minors)[k][1]]
          /\ parsedMinorPrograms' = EmptyMap
          /\ pc' = "minorLoop"
          /\ frame' = [frame EXCEPT !.i = 1]
          /\ inflight' = inflight \ {call}
          /\ UNCHANGED <<world, reply, persisted, catalogYear, file, runs, done, degrees, majorPrograms,
                         knownSpecializations, specializationCache,
                         parsedUgradRequirements, parsedPrograms,
                         parsedSpecializations, degreesAwarded, lastGet, hist>>

\* lines 255-256 and 270-271, 146-147: the head of the loop over the minors
MinorLoop ==
  /\ pc = "minorLoop"
  /\ IF frame.i <= Len(minorPrograms)
     THEN /\ pc' = "minorAudit"
          /\ inflight' = Issue("getMinorAudit", <<minorPrograms[frame.i]>>)
          /\ UNCHANGED frame
     ELSE /\ pc' = "programLoop"
          /\ frame' = [frame EXCEPT !.i = 1, !.ret = EmptyMap]
          /\ UNCHANGED inflight
  /\ UNCHANGED <<world, reply, persisted, catalogYear, file, runs, instance, lastGet, hist>>

\* a minor stored only under a title that is not held yet
StoreMinorFirstWins(minors, minorCode, audit) ==
  IF audit = NoBlock \/ MapHas(minors, audit.title) THEN minors
  ELSE MapSet(minors, audit.title, parseBlock("U", "MINOR", minorCode, Undefined, audit))

\* lines 257-267: without a block the minor is skipped; otherwise its program
\* is set under the title of the block
StoreMinor(minors, minorCode, audit) ==
  IF audit = NoBlock THEN minors
  ELSE MapSet(minors, audit.title, parseBlock("U", "MINOR", minorCode, Undefined, audit))

\* lines 256-268: the audit of one minor arrives
MinorAuditResponse ==
  /\ pc = "minorAudit"
  /\ \E call \in Awaited("getMinorAudit"),
        res \in MinorAuditResponses(world, minorPrograms[frame.i]) :
       LET minorCode == minorPrograms[frame.i]
                audit == getMinorAudit(res, minorCode)
            IN /\ parsedMinorPrograms' = StoreMinor(parsedMinorPrograms, minorCode, audit)
               /\ hist' = [hist EXCEPT !.minorYielded =
                              Append(@, IF audit = NoBlock THEN Null ELSE audit.title)]
               /\ pc' = "minorLoop"
               /\ frame' = [frame EXCEPT !.i = @ + 1]
               /\ inflight' = inflight \ {call}
               /\ UNCHANGED <<world, reply, persisted, catalogYear, file, runs, done, degrees, majorPrograms,
                              minorPrograms, knownSpecializations, specializationCache,
                              parsedUgradRequirements, parsedPrograms,
                              parsedSpecializations, degreesAwarded, lastGet>>

(* ------------------------------------------------------------------ *)
(* scrapePrograms                                                      *)
(* ------------------------------------------------------------------ *)

\* the map without the test of line 168: a later audit replaces the program
StoreProgramLastWins(ret, schoolCode, majorCode, degreeCode, audit) ==
  IF ~audit.found \/ audit.major = NoBlock THEN ret
  ELSE MapSet(ret, audit.major.title,
              [college |-> IF audit.college = NoBlock THEN NoProgram
                           ELSE parseBlock(schoolCode, "COLLEGE", majorCode, degreeCode,
                                           audit.college),
               major |-> parseBlock(schoolCode, "MAJOR", majorCode, degreeCode,
                                    audit.major)])

\* an audit without major block empties the map
StoreProgramDropsOnMiss(ret, schoolCode, majorCode, degreeCode, audit) ==
  IF ~audit.found \/ audit.major = NoBlock THEN EmptyMap
  ELSE IF MapHas(ret, audit.major.title) THEN ret
  ELSE MapSet(ret, audit.major.title,
              [college |-> IF audit.college = NoBlock THEN NoProgram
                           ELSE parseBlock(schoolCode, "COLLEGE", majorCode, degreeCode,
                                           audit.college),
               major |-> parseBlock(schoolCode, "MAJOR", majorCode, degreeCode,
                                    audit.major)])

\* lines 165-180: what one audit does to the map scrapePrograms builds
StoreProgram(ret, schoolCode, majorCode, degreeCode, audit) ==
  IF ~audit.found \/ audit.major = NoBlock THEN ret
  ELSE IF MapHas(ret, audit.major.title) THEN ret
  ELSE MapSet(ret, audit.major.title,
              [college |-> IF audit.college = NoBlock THEN NoProgram
                           ELSE parseBlock(schoolCode, "COLLEGE", majorCode, degreeCode,
                                           audit.college),
               major |-> parseBlock(schoolCode, "MAJOR", majorCode, degreeCode,
                                    audit.major)])

\* lines 147-154 and 186, 271-285: the head of the loop over the triplets;
\* after the last one the programs are stored and the cache file is read
ProgramLoop ==
  /\ pc = "programLoop"
  /\ IF frame.i <= Len(frame.validDegrees)
     THEN LET t == frame.validDegrees[frame.i] IN
          /\ pc' = "majorAudit"
          /\ inflight' = Issue("getMajorAudit",
                               <<t[3], IF StartsWithB(t[3]) THEN "U" ELSE "G", t[2], t[1]>>)
          /\ UNCHANGED <<frame, parsedPrograms, parsedSpecializations>>
     ELSE /\ parsedPrograms' = frame.ret
          /\ parsedSpecializations' = EmptyMap
          /\ pc' = "cacheRead"
          /\ frame' = NoFrame
          /\ UNCHANGED inflight
  /\ UNCHANGED <<world, reply, persisted, catalogYear, file, runs, done, degrees, majorPrograms, minorPrograms,
                 knownSpecializations, specializationCache, parsedUgradRequirements,
                 parsedMinorPrograms, degreesAwarded, lastGet, hist>>

\* lines 148-185: the audit of one triplet arrives
MajorAuditResponse ==
  /\ pc = "majorAudit"
  /\ \E call \in Awaited("getMajorAudit"),
        res \in MajorAuditResponses(world, frame.validDegrees[frame.i][2],
                                    frame.validDegrees[frame.i][1]) :
       LET t == frame.validDegrees[frame.i]
                audit == getMajorAudit(res, t[2], t[1])
            IN /\ frame' = [frame EXCEPT !.i = @ + 1,
                                         !.ret = StoreProgram(@, t[1], t[2], t[3], audit)]
               /\ hist' = [hist EXCEPT !.yielded =
                              Append(@, IF audit.found /\ audit.major # NoBlock
                                        THEN audit.major.title ELSE Null)]
               /\ pc' = "programLoop"
               /\ inflight' = inflight \ {call}
               /\ UNCHANGED <<world, reply, persisted, catalogYear, file, runs, instance, lastGet>>

(* ------------------------------------------------------------------ *)
(* The specializations                                                 *)
(* ------------------------------------------------------------------ *)

\* lines 275-285: the cache file is read and the vocabulary asked for
CacheRead ==
  /\ pc = "cacheRead"
  /\ specializationCache' = Deserialize(file)
  /\ hist' = [hist EXCEPT !.loaded = Deserialize(file), !.hasLoaded = TRUE]
  /\ pc' = "specializations"
  /\ inflight' = Issue("getMapping", <<"specializations">>)
  /\ UNCHANGED <<world, reply, persisted, catalogYear, file, runs, done, degrees, majorPrograms, minorPrograms,
                 knownSpecializations, parsedUgradRequirements, parsedMinorPrograms,
                 parsedPrograms, parsedSpecializations, degreesAwarded, frame, lastGet>>

\* lines 285-287: the specialization vocabulary arrives
SpecializationsResponse ==
  /\ pc = "specializations"
  /\ \E call \in Awaited("getMapping") :
       \/ Raise(call)
       \/ /\ knownSpecializations' = getMapping(world.specializations)
          /\ pc' = "specLoop"
          /\ frame' = [NoFrame EXCEPT !.i = 1]
          /\ inflight' = inflight \ {call}
          /\ UNCHANGED <<world, reply, persisted, catalogYear, file, runs, done, degrees, majorPrograms, minorPrograms,
                         specializationCache, parsedUgradRequirements,
                         parsedMinorPrograms, parsedPrograms, parsedSpecializations,
                         degreesAwarded, lastGet, hist>>

\* line 307
DegreeTypeUndefined(candidate) == candidate.degreeType \in {Undefined, ""}

\* lines 309-314: the request for one candidate
SpecAuditCall(candidate, specCode) ==
  <<candidate.degreeType, IF StartsWithB(candidate.degreeType) THEN "U" ELSE "G",
    candidate.code, specCode>>

\* lines 328-357 with a parent held by parsedPrograms under `title`
ResolveLive(specCode, specName, title, specBlock) ==
  LET entry == MapGet(parsedPrograms, title)
      foundMajor == [entry.major EXCEPT !.specs = Append(@, specCode)]
  IN /\ parsedPrograms' = MapSet(parsedPrograms, title, [entry EXCEPT !.major = foundMajor])
     /\ specializationCache' = CacheSet(specializationCache, specCode,
                                        LiveEntry(title, specBlock))
     /\ parsedSpecializations' =
          MapSet(parsedSpecializations, specCode,
                 [parent |-> [kind |-> "live", title |-> title], name |-> specName,
                  program |-> parseBlock(foundMajor.school, "SPEC", specCode,
                                         foundMajor.degreeType, specBlock)])

\* lines 328-357 with the parent object of a cache entry
ResolveCached(specCode, specName, got) ==
  LET foundMajor == [got.parent EXCEPT !.specs = Append(@, specCode)]
  IN /\ specializationCache' = CacheSet(specializationCache, specCode,
                                        CopyEntry(foundMajor, got.block))
     /\ parsedSpecializations' =
          MapSet(parsedSpecializations, specCode,
                 [parent |-> [kind |-> "copy", parent |-> foundMajor], name |-> specName,
                  program |-> parseBlock(foundMajor.school, "SPEC", specCode,
                                         foundMajor.degreeType, got.block)])
     /\ UNCHANGED parsedPrograms

\* the else branch of lines 358-364 without the null entry
MarkUnresolvedForgets(specCode) ==
  UNCHANGED <<specializationCache, parsedPrograms, parsedSpecializations>>

\* lines 358-364
MarkUnresolved(specCode) ==
  /\ specializationCache' = CacheSet(specializationCache, specCode, NullEntry)
  /\ UNCHANGED <<parsedPrograms, parsedSpecializations>>

RECURSIVE Distinct(_)
\* Array.from(new Set(values)): the first occurrence of each value, in order
Distinct(values) ==
  IF values = << >> THEN << >>
  ELSE LET front == Distinct(SubSeq(values, 1, Len(values) - 1))
           last == values[Len(values)]
       IN IF \E k \in 1..Len(front) : front[k] = last THEN front ELSE Append(front, last)

\* the index as the whole degree vocabulary
DegreesAwardedOfVocabulary(programs, dwDegrees) == dwDegrees

\* lines 375-379
DegreesAwardedOf(programs, dwDegrees) ==
  LET used == Distinct([k \in 1..Len(programs) |-> programs[k][2].major.degreeType])
  IN MapFromEntries([k \in 1..Len(used) |->
       <<used[k], IF MapHas(dwDegrees, used[k]) THEN MapGet(dwDegrees, used[k]) ELSE "">>])

\* the programs after a step that appends the requirements in the other order
PostProcessProgramsSwapped(programs, specializations) ==
  IF /\ MapHas(programs, "Major in Art History")
     /\ MapHas(specializations, "AHGEO")
     /\ MapHas(specializations, "AHPER")
  THEN LET x == MapGet(programs, "Major in Art History")
           y == MapGet(specializations, "AHGEO").program
           z == MapGet(specializations, "AHPER").program
       IN MapSet(programs, "Major in Art History",
                 [x EXCEPT !.major.specs = << >>,
                           !.major.requirements = @ \o z.requirements \o y.requirements])
  ELSE programs

\* line 391: the Art History major and both of its specializations are there
MergeApplies(programs, specializations) ==
  /\ MapHas(programs, "Major in Art History")
  /\ MapHas(specializations, "AHGEO")
  /\ MapHas(specializations, "AHPER")

\* lines 388-397: the programs after the post-processing step
PostProcessPrograms(programs, specializations) ==
  IF MergeApplies(programs, specializations)
  THEN LET x == MapGet(programs, "Major in Art History")
           y == MapGet(specializations, "AHGEO").program
           z == MapGet(specializations, "AHPER").program
       IN MapSet(programs, "Major in Art History",
                 [x EXCEPT !.major.specs = << >>,
                           !.major.requirements = @ \o y.requirements \o z.requirements])
  ELSE programs

\* both specializations deleted whether or not the merge took place
PostProcessSpecializationsAlwaysDeletes(programs, specializations) ==
  MapDelete(MapDelete(specializations, "AHGEO"), "AHPER")

\* lines 388-397: the specializations after the post-processing step
PostProcessSpecializations(programs, specializations) ==
  IF MergeApplies(programs, specializations)
  THEN MapDelete(MapDelete(specializations, "AHGEO"), "AHPER")
  ELSE specializations

\* lines 375-399: after the last specialization
Finish ==
  /\ degreesAwarded' = DegreesAwardedOf(parsedPrograms, degrees)
  /\ parsedPrograms' = PostProcessPrograms(parsedPrograms, parsedSpecializations)
  /\ parsedSpecializations' = PostProcessSpecializations(parsedPrograms, parsedSpecializations)
  /\ done' = TRUE
  /\ pc' = "done"
  /\ frame' = NoFrame
  /\ UNCHANGED <<world, reply, persisted, catalogYear, file, inflight, runs, degrees, majorPrograms, minorPrograms,
                 knownSpecializations, specializationCache, parsedUgradRequirements,
                 parsedMinorPrograms, lastGet, hist>>

\* a cache that is never hit
CacheHitNever(specCode) == FALSE

\* line 292
CacheHit(specCode) == specCode \in DOMAIN specializationCache

\* every iteration has the file rewritten
AfterIterationAlways(newlyResolved) == "cacheWrite"

\* lines 366-372: only a newly resolved specialization has the file rewritten
AfterIteration(newlyResolved) == IF newlyResolved THEN "cacheWrite" ELSE "specLoop"

\* lines 287-321 and 375-399: the head of the loop over the known
\* specializations, up to the first request or, without one, to the end of
\* the iteration
SpecLoop ==
  /\ pc = "specLoop"
  /\ IF frame.i > Len(knownSpecializations) THEN Finish
     ELSE
       /\ LET specCode == knownSpecializations[frame.i][1]
              specName == knownSpecializations[frame.i][2]
              majorCandidates == specializationParentCandidates(parsedPrograms, specCode)
          IN IF CacheHit(specCode)
             THEN /\ IF specializationCache[specCode].kind # "null"
                     THEN ResolveCached(specCode, specName, specializationCache[specCode])
                     ELSE MarkUnresolved(specCode)
                  /\ pc' = AfterIteration(FALSE)
                  /\ frame' = IF pc' = "specLoop" THEN [frame EXCEPT !.i = @ + 1] ELSE frame
                  /\ UNCHANGED <<inflight, hist>>
             ELSE IF majorCandidates = << >>
             THEN /\ MarkUnresolved(specCode)
                  /\ pc' = AfterIteration(TRUE)
                  /\ hist' = [hist EXCEPT !.resolved = @ \cup {specCode}]
                  /\ UNCHANGED <<frame, inflight>>
             ELSE /\ IF DegreeTypeUndefined(MapGet(parsedPrograms, majorCandidates[1]).major)
                     THEN /\ pc' = "threw"
                          /\ frame' = NoFrame
                          /\ hist' = [hist EXCEPT !.raised = "degreeType"]
                          /\ UNCHANGED inflight
                     ELSE /\ pc' = "specAudit"
                          /\ frame' = [frame EXCEPT !.majorCandidates = majorCandidates,
                                                    !.c = 1]
                          /\ inflight' =
                               Issue("getSpecAudit",
                                     SpecAuditCall(MapGet(parsedPrograms,
                                                          majorCandidates[1]).major, specCode))
                          /\ hist' = [hist EXCEPT !.requested = @ \cup {specCode}]
                  /\ UNCHANGED <<specializationCache, parsedPrograms, parsedSpecializations>>
       /\ UNCHANGED <<done, degreesAwarded>>
       /\ UNCHANGED <<world, reply, persisted, catalogYear, file, runs, degrees, majorPrograms, minorPrograms,
                      knownSpecializations, parsedUgradRequirements,
                      parsedMinorPrograms, lastGet>>

\* lines 306-364: the audit of one candidate arrives
SpecAuditResponse ==
  /\ pc = "specAudit"
  /\ \E call \in Awaited("getSpecAudit"),
        res \in SpecAuditResponses(world, knownSpecializations[frame.i][1]) :
         LET specCode == knownSpecializations[frame.i][1]
             specName == knownSpecializations[frame.i][2]
             specBlock == getSpecAudit(res, specCode)
             more == frame.c < Len(frame.majorCandidates)
             next == MapGet(parsedPrograms, frame.majorCandidates[frame.c + 1]).major
         IN
         /\ IF specBlock # NoBlock
            THEN /\ ResolveLive(specCode, specName, frame.majorCandidates[frame.c], specBlock)
                 /\ pc' = AfterIteration(TRUE)
                 /\ frame' = [frame EXCEPT !.majorCandidates = << >>, !.c = 0]
                 /\ inflight' = inflight \ {call}
                 /\ hist' = [hist EXCEPT !.resolved = @ \cup {specCode}]
            ELSE IF more
            THEN /\ IF DegreeTypeUndefined(next)
                    THEN /\ pc' = "threw"
                         /\ frame' = NoFrame
                         /\ inflight' = inflight \ {call}
                         /\ hist' = [hist EXCEPT !.raised = "degreeType"]
                    ELSE /\ pc' = "specAudit"
                         /\ frame' = [frame EXCEPT !.c = @ + 1]
                         /\ inflight' = (inflight \ {call})
                               \cup {Call("getSpecAudit", SpecAuditCall(next, specCode), runs)}
                         /\ UNCHANGED hist
                 /\ UNCHANGED <<specializationCache, parsedPrograms,
                                parsedSpecializations>>
            ELSE /\ MarkUnresolved(specCode)
                 /\ pc' = AfterIteration(TRUE)
                 /\ frame' = [frame EXCEPT !.majorCandidates = << >>, !.c = 0]
                 /\ inflight' = inflight \ {call}
                 /\ hist' = [hist EXCEPT !.resolved = @ \cup {specCode}]
         /\ UNCHANGED <<world, reply, persisted, catalogYear, file, runs, done, degrees, majorPrograms, minorPrograms,
                        knownSpecializations, parsedUgradRequirements,
                        parsedMinorPrograms, degreesAwarded, lastGet>>

\* the iteration ends without the write of lines 368-371
CacheWriteSkipped ==
  /\ pc = "cacheWrite"
  /\ hist' = [hist EXCEPT !.wrote = @ \cup {knownSpecializations[frame.i][1]}]
  /\ pc' = "specLoop"
  /\ frame' = [frame EXCEPT !.i = @ + 1]
  /\ UNCHANGED <<world, reply, persisted, catalogYear, file, inflight, runs, instance, lastGet>>

\* lines 366-373: the cache file is rewritten after a newly resolved
\* specialization
CacheWrite ==
  /\ pc = "cacheWrite"
  /\ file' = Serialize(specializationCache, parsedPrograms)
  /\ hist' = [hist EXCEPT !.wrote = @ \cup {knownSpecializations[frame.i][1]}]
  /\ pc' = "specLoop"
  /\ frame' = [frame EXCEPT !.i = @ + 1]
  /\ UNCHANGED <<world, reply, persisted, catalogYear, inflight, runs, instance, lastGet>>

(* ------------------------------------------------------------------ *)
(* The fetch and the delay of a client operation                       *)
(* ------------------------------------------------------------------ *)

\* an activation of run() is in progress
Running == pc \notin {"idle", "returned", "threw", "done", "rejected", "failed"}

\* `await fetch(...)` of a client operation resolves and `await this.sleep()`
\* starts (client lines 55-59, 105-120, 138-153, 168-184, 196-199)
FetchResolved ==
  /\ Running
  /\ \E call \in inflight :
       /\ call.op \in ClientOperations /\ call.phase = "fetch" /\ call.run = runs
       /\ inflight' = (inflight \ {call}) \cup {Sleeping(call)}
  /\ UNCHANGED <<world, reply, persisted, catalogYear, file, pc, runs, instance, frame, lastGet, hist>>

\* the same call is made once more instead of the exception leaving run()
FetchRejectedRetries ==
  /\ Running
  /\ \E call \in inflight :
       /\ call.phase = "fetch" /\ call.run = runs
       /\ hist' = [hist EXCEPT !.raised = "fetch"]
  /\ UNCHANGED <<world, reply, persisted, catalogYear, file, pc, inflight, runs, instance, frame, lastGet>>

\* a fetch rejects: nothing catches the exception, it leaves the client
\* operation (without the delay) and run()
FetchRejected ==
  /\ Running
  /\ \E call \in inflight :
       /\ call.phase = "fetch" /\ call.run = runs
       /\ RaiseAs(call, "fetch")

(* ------------------------------------------------------------------ *)
(* get(), a new instance, and the specification                        *)
(* ------------------------------------------------------------------ *)

\* `${degreeType}-${code}`, as the characters of the id
IdOf(degreeType, code) == Chars(degreeType) \o <<"-">> \o Chars(code)

\* index.ts lines 48: what would be inserted for the college of a major
WouldInsert(college) == [name |-> college.name, requirements |-> college.requirements]

\* collegeBlocks.findIndex(... assert.deepStrictEqual(schoolExisting, wouldInsert)
\* ...): the first position of a block equal in name and requirements, 0 for
\* none (positions count from 1 here)
FindIndex(collegeBlocks, wouldInsert) ==
  IF \E k \in 1..Len(collegeBlocks) : collegeBlocks[k] = wouldInsert
  THEN CHOOSE k \in 1..Len(collegeBlocks) :
         /\ collegeBlocks[k] = wouldInsert
         /\ \A j \in 1..(k - 1) : collegeBlocks[j] # wouldInsert
  ELSE 0

RECURSIVE CollegeBlocksOf(_)
\* index.ts lines 44-63: the college blocks after the programs given, in the
\* order of the Map: a program's college is pushed unless findIndex has it
CollegeBlocksOf(programs) ==
  IF programs = << >> THEN << >>
  ELSE LET front == CollegeBlocksOf(SubSeq(programs, 1, Len(programs) - 1))
           college == programs[Len(programs)][2].college
       IN IF college = NoProgram THEN front
          ELSE IF FindIndex(front, WouldInsert(college)) # 0 THEN front
          ELSE Append(front, WouldInsert(college))

\* index.ts lines 45-77: one row per parsed program, with the position of its
\* college block when it has a college
MajorDataOf(programs) ==
  [k \in 1..Len(programs) |->
     LET program == programs[k][2].major
         college == programs[k][2].college
     IN [id |-> IdOf(program.degreeType, program.code),
         degreeId |-> IF program.degreeType = Undefined THEN "" ELSE program.degreeType,
         code |-> program.code,
         name |-> program.name,
         requirements |-> program.requirements,
         collegeBlockIndex |->
           IF college = NoProgram THEN Undefined
           ELSE FindIndex(CollegeBlocksOf(SubSeq(programs, 1, k)), WouldInsert(college))]]

\* index.ts lines 79-82
MinorDataOf(minors) ==
  [k \in 1..Len(minors) |->
     [id |-> minors[k][2].code, name |-> minors[k][2].name,
      requirements |-> minors[k][2].requirements]]

\* index.ts lines 84-92: the parent is the object the run reported
SpecDataOf(programs, specializations) ==
  [k \in 1..Len(specializations) |->
     LET spec == specializations[k][2]
         majorId == Deref(programs, spec.parent)
     IN [id |-> IdOf(spec.program.degreeType, spec.program.code),
         name |-> spec.name,
         majorId |-> IdOf(majorId.degreeType, majorId.code),
         requirements |-> spec.program.requirements]]

\* index.ts lines 35-42
DegreeDataOf(awarded) ==
  [k \in 1..Len(awarded) |->
     [id |-> awarded[k][1], name |-> awarded[k][2],
      division |-> IF StartsWithB(awarded[k][1]) THEN "Undergraduate" ELSE "Graduate"]]

\* index.ts lines 24-92: main() has the maps of get() and builds the rows it
\* hands to the database
Persist ==
  /\ done /\ lastGet = "maps"
  /\ ~persisted.built
  /\ persisted' = [built |-> TRUE,
                   degreeData |-> DegreeDataOf(degreesAwarded),
                   collegeBlocks |-> CollegeBlocksOf(parsedPrograms),
                   majorData |-> MajorDataOf(parsedPrograms),
                   minorData |-> MinorDataOf(parsedMinorPrograms),
                   specData |-> SpecDataOf(parsedPrograms, parsedSpecializations)]
  /\ UNCHANGED <<world, catalogYear, file, pc, inflight, runs, instance, frame, lastGet, hist,
                 reply>>

\* a guard that never rejects a call
NotYetFinishedNever == FALSE

\* line 402: the guard of get()
NotYetFinished == ~done

\* lines 401-410: get() is called
Get ==
  /\ lastGet' = IF NotYetFinished THEN "threw" ELSE "maps"
  /\ UNCHANGED <<world, reply, persisted, catalogYear, file, pc, inflight, runs, instance, frame, hist>>

\* the process ends, at any point, and the program is started again: Scraper.new
\* makes a new instance; only the cache file is kept
Restart ==
  /\ pc \notin {"idle", "bootstrap"}
  /\ runs < MaxRuns
  /\ pc' = "bootstrap"
  /\ catalogYear' = ForwardCatalogYear
  /\ inflight' = {Probe(runs)}
  /\ done' = FALSE
  /\ degrees' = EmptyMap
  /\ majorPrograms' = {}
  /\ minorPrograms' = << >>
  /\ knownSpecializations' = EmptyMap
  /\ specializationCache' = EmptyCache
  /\ parsedUgradRequirements' = EmptyMap
  /\ parsedMinorPrograms' = EmptyMap
  /\ parsedPrograms' = EmptyMap
  /\ parsedSpecializations' = EmptyMap
  /\ degreesAwarded' = EmptyMap
  /\ frame' = NoFrame
  /\ lastGet' = "none"
  /\ hist' = NoHist
  /\ persisted' = NoData
  /\ UNCHANGED <<world, reply, file, runs>>

\* the answer to a call whose activation is over (the other fetch of a
\* Promise.all that rejected) arrives and is dropped
Settle ==
  /\ \E call \in inflight :
       /\ call.run # runs \/ pc \in {"threw", "returned", "done", "rejected"}
       /\ inflight' = inflight \ {call}
  /\ UNCHANGED <<world, reply, persisted, catalogYear, file, pc, runs, instance, frame, lastGet, hist>>

Next ==
  \/ BootstrapResponse
  \/ RunCall
  \/ UgradResponse
  \/ DegreesResponse
  \/ MajorsResponse
  \/ DiscoveryResponse
  \/ MinorsResponse
  \/ MinorLoop
  \/ MinorAuditResponse
  \/ ProgramLoop
  \/ MajorAuditResponse
  \/ CacheRead
  \/ SpecializationsResponse
  \/ SpecLoop
  \/ SpecAuditResponse
  \/ CacheWrite
  \/ FetchResolved
  \/ FetchRejected
  \/ Get
  \/ Persist
  \/ Restart
  \/ Settle

Spec == Init /\ [][Next]_vars

(* ------------------------------------------------------------------ *)
(* Discovery on its own: run() at line 249, over every catalogue        *)
(* ------------------------------------------------------------------ *)

\* the report entries of the catalogue: major 201 of school U with degree
\* code 1 and no end term, with an end term in 1992, 2005, 2010 and 2040, with
\* the empty end term and the aliased degree, a major the audit system does
\* not know, an entry without degree code, a degree nobody is awarded in the
\* audit system (3) and a degree code the award types do not list (9)
DiscoveryReports ==
  {Report("U", "201", Null, "1"), Report("U", "201", "F92", "1"),
   Report("U", "201", "S05", "1"), Report("U", "201", "F10", "1"),
   Report("U", "201", "F40", "1"), Report("U", "201", "", "2"),
   Report("U", "999", Null, "1"), Report("U", "201", Null, Null),
   Report("U", "201", Null, "3"), Report("U", "201", Null, "9")}

\* the degree vocabularies of the audit system: one degree named "b.s." and the
\* aliased one, two degrees of the same name up to case, and none
DiscoveryDegrees ==
  {<< <<"BS", "b.s.">>, <<"MIM", "M.I.M.">> >>,
   << <<"BS", "B.S.">>, <<"BSX", "b.s.">> >>,
   << >>}

DiscoveryWorlds ==
  {[WorldChemistry EXCEPT
      !.degrees = dwDegrees,
      !.majors = << <<"201", "Computer Science">> >>,
      !.awardTypes = << AwardType("1", "B.S."), AwardType("2", "M.MGMT."),
                        AwardType("3", "Ph.D.") >>,
      !.reports = reports] :
     dwDegrees \in DiscoveryDegrees,
     reports \in UNION {[1..n -> DiscoveryReports] : n \in 0..MaxReports}}

\* run() has the undergraduate requirements and both vocabularies (lines
\* 229-248) and discovery has sent its two catalogue requests (lines 86-109)
InitDiscovery ==
  /\ world \in DiscoveryWorlds
  /\ catalogYear = ForwardCatalogYear
  /\ file = EmptyFile
  /\ pc = "discovery"
  /\ inflight = {Call("awardTypes", << >>, 1), Call("reports", << >>, 1)}
  /\ runs = 1
  /\ done = FALSE
  /\ degrees = getMapping(world.degrees)
  /\ majorPrograms = MapKeys(getMapping(world.majors))
  /\ minorPrograms = << >>
  /\ knownSpecializations = EmptyMap
  /\ specializationCache = EmptyCache
  /\ parsedUgradRequirements =
       LET ugradReqs ==
             getUgradRequirements(
               Blocks(<<Block("DEGREE", "BS", "Degree"), Block("SCHOOL", "UC", "University"),
                        Block("PROGRAM", "GE", "General Education")>>))
       IN MapSet(MapSet(EmptyMap, "UC", ruleArrayToRequirements(ugradReqs.UC.ruleArray)),
                 "GE", ruleArrayToRequirements(ugradReqs.GE.ruleArray))
  /\ parsedMinorPrograms = EmptyMap
  /\ parsedPrograms = EmptyMap
  /\ parsedSpecializations = EmptyMap
  /\ degreesAwarded = EmptyMap
  /\ frame = NoFrame
  /\ lastGet = "none"
  /\ hist = [NoHist EXCEPT !.ugrad = "found"]
  /\ reply = NoReply
  /\ persisted = NoData

NextDiscovery == DiscoveryResponse

SpecDiscovery == InitDiscovery /\ [][NextDiscovery]_vars

(* ------------------------------------------------------------------ *)
(* The audit operations of the client on their own, over every response *)
(* ------------------------------------------------------------------ *)

\* the blocks a response can carry: the requested major, minor and
\* specialization, the same types with another value, the other type a
\* specialization comes under, and the blocks of the undergraduate audit
ClientBlocks ==
  {Block("MAJOR", "201", "Major in Computer Science"), Block("MAJOR", "999", "Major in Else"),
   Block("COLLEGE", "55", "College"), Block("MINOR", "0A0", "Minor in Chemistry"),
   Block("MINOR", "201", "Minor in Else"), Block("SPEC", "161A", "Specialization"),
   Block("OTHER", "161A", "Specialization"), Block("OTHER", "CHP", "Honors"),
   Block("SPEC", "999", "Specialization in Else"),
   Block("SCHOOL", "UC", "University"), Block("PROGRAM", "GE", "General Education")}

ClientResponses ==
  {ErrorEnvelope, Malformed}
  \cup {Blocks(bs) : bs \in UNION {[1..n -> ClientBlocks] : n \in 0..MaxBlocks}}

\* the calls looked at: each audit operation with its arguments (major code
\* and college, minor code, specialization code)
ClientCalls ==
  {[op |-> "getUgradRequirements", args |-> << >>],
   [op |-> "getMajorAudit", args |-> <<"201", Undefined>>],
   [op |-> "getMajorAudit", args |-> <<"201", "55">>],
   [op |-> "getMinorAudit", args |-> <<"0A0">>],
   [op |-> "getSpecAudit", args |-> <<"161A">>]}

\* what the operation of `reply` makes of its response
Result(r) ==
  CASE r.op = "getUgradRequirements" -> getUgradRequirements(r.res)
    [] r.op = "getMajorAudit" -> getMajorAudit(r.res, r.args[1], r.args[2])
    [] r.op = "getMinorAudit" -> getMinorAudit(r.res, r.args[1])
    [] r.op = "getSpecAudit" -> getSpecAudit(r.res, r.args[1])

\* a client with its catalogue year set; one operation has been called and
\* its response is there
InitClient ==
  /\ world = WorldChemistry
  /\ catalogYear \in {ForwardCatalogYear, PriorCatalogYear}
  /\ file = EmptyFile
  /\ pc = "client"
  /\ inflight = {}
  /\ runs = 0
  /\ done = FALSE
  /\ degrees = EmptyMap
  /\ majorPrograms = {}
  /\ minorPrograms = << >>
  /\ knownSpecializations = EmptyMap
  /\ specializationCache = EmptyCache
  /\ parsedUgradRequirements = EmptyMap
  /\ parsedMinorPrograms = EmptyMap
  /\ parsedPrograms = EmptyMap
  /\ parsedSpecializations = EmptyMap
  /\ degreesAwarded = EmptyMap
  /\ frame = NoFrame
  /\ lastGet = "none"
  /\ hist = NoHist
  /\ reply \in {[op |-> call.op, args |-> call.args, res |-> res, returned |-> FALSE] :
                  call \in ClientCalls, res \in ClientResponses}
  /\ persisted = NoData

\* the operation reads the body and returns (client lines 61-84, 121-134,
\* 155-160, 185-193)
ClientReturns ==
  /\ pc = "client"
  /\ ~reply.returned
  /\ reply' = [op |-> reply.op, args |-> reply.args, res |-> reply.res,
               returned |-> TRUE, result |-> Result(reply)]
  /\ UNCHANGED <<world, catalogYear, file, pc, inflight, runs, instance, frame, lastGet, hist,
                 persisted>>

NextClient == ClientReturns

SpecClient == InitClient /\ [][NextClient]_vars

(* ------------------------------------------------------------------ *)
(* main() after the run, over every set of parsed programs              *)
(* ------------------------------------------------------------------ *)

\* the college blocks an audit can carry: two titles, each with no rule or
\* with one and the same rule
PersistCollegeBlocks ==
  {[Block("COLLEGE", value, title) EXCEPT !.ruleArray = ruleArray] :
     value \in {"55"}, title \in {"School of A", "School of B"},
     ruleArray \in {<< >>, <<Rule("Course", "R1", << >>)>>}}

\* the titles and codes of the majors, in the order they were parsed
PersistMajors ==
  << <<"Major in A", "161">>, <<"Major in B", "201">>, <<"Major in C", "AHGE">>,
     <<"Major in D", "AHPE">> >>

\* the program scrapePrograms stores for the k-th major audit, with the
\* college block the audit carried (NoBlock for none)
PersistProgram(k, college) ==
  MapGet(StoreProgram(EmptyMap, "55", PersistMajors[k][2], "BS",
                      [found |-> TRUE, college |-> college,
                       major |-> Block("MAJOR", PersistMajors[k][2], PersistMajors[k][1])]),
         PersistMajors[k][1])

\* the results of a run: up to MaxPrograms programs, each with or without college
PersistPrograms ==
  UNION {{[k \in 1..n |-> <<PersistMajors[k][1], PersistProgram(k, colleges[k])>>] :
            colleges \in [1..n -> PersistCollegeBlocks \cup {NoBlock}]} :
         n \in 0..MaxPrograms}

\* run() has completed and get() has returned its maps (index.ts lines 24-32)
InitPersist ==
  /\ world = WorldChemistry
  /\ catalogYear = ForwardCatalogYear
  /\ file = EmptyFile
  /\ pc = "done"
  /\ inflight = {}
  /\ runs = 1
  /\ done = TRUE
  /\ degrees = getMapping(world.degrees)
  /\ majorPrograms = {"161", "201", "AHGE", "AHPE"}
  /\ minorPrograms = << >>
  /\ knownSpecializations = EmptyMap
  /\ specializationCache = EmptyCache
  /\ parsedUgradRequirements = EmptyMap
  /\ parsedMinorPrograms = EmptyMap
  /\ parsedPrograms \in PersistPrograms
  /\ parsedSpecializations = EmptyMap
  /\ degreesAwarded = DegreesAwardedOf(parsedPrograms, degrees)
  /\ frame = NoFrame
  /\ lastGet = "maps"
  /\ hist = NoHist
  /\ reply = NoReply
  /\ persisted = NoData

SpecPersist == InitPersist /\ [][Persist]_vars

(* ------------------------------------------------------------------ *)
(* The audit parser on its own                                         *)
(* ------------------------------------------------------------------ *)

\* the rule arrays looked at hold at most this many entries, nested ones counted
MaxRuleNodes == 3

RECURSIVE RuleArraysOfSize(_)

\* the entries of exactly n nodes: a leaf, or a directive or sub-block around
\* a rule array of n - 1 nodes
RulesOfSize(n) ==
  (IF n = 1
   THEN {Rule("Course", "CHEM 1A", << >>), Rule("Exam", "AP Chemistry", << >>),
         Rule("Unknown", "Remark", << >>)}
   ELSE {})
    \cup {Rule(ruleType, "Group", ruleArray) :
            ruleType \in GroupingDirectives \cup {"Block"},
            ruleArray \in RuleArraysOfSize(n - 1)}

\* the rule arrays of exactly n nodes
RuleArraysOfSize(n) ==
  IF n = 0 THEN {<< >>}
  ELSE UNION {{<<rule>> \o rest : rule \in RulesOfSize(k), rest \in RuleArraysOfSize(n - k)} :
                k \in 1..n}

RuleArrays == UNION {RuleArraysOfSize(n) : n \in 0..MaxRuleNodes}

ParserWorlds == {[WorldChemistry EXCEPT !.ucRules = ruleArray] : ruleArray \in RuleArrays}

\* run() has asked for the undergraduate requirements and the response is in
\* (lines 226-228)
InitParser ==
  /\ world \in ParserWorlds
  /\ catalogYear = ForwardCatalogYear
  /\ file = EmptyFile
  /\ pc = "ugrad"
  /\ inflight = {Sleeping(Call("getUgradRequirements", << >>, 1))}
  /\ runs = 1
  /\ done = FALSE
  /\ degrees = EmptyMap
  /\ majorPrograms = {}
  /\ minorPrograms = << >>
  /\ knownSpecializations = EmptyMap
  /\ specializationCache = EmptyCache
  /\ parsedUgradRequirements = EmptyMap
  /\ parsedMinorPrograms = EmptyMap
  /\ parsedPrograms = EmptyMap
  /\ parsedSpecializations = EmptyMap
  /\ degreesAwarded = EmptyMap
  /\ frame = NoFrame
  /\ lastGet = "none"
  /\ hist = NoHist
  /\ reply = NoReply
  /\ persisted = NoData

SpecParser == InitParser /\ [][UgradResponse]_vars

(* ------------------------------------------------------------------ *)
(* Properties                                                          *)
(* ------------------------------------------------------------------ *)

\* a step that is a call of run()
IsRunCall == runs' = runs + 1

\* C1, as stated: on one instance every call of run() after the first fails,
\* whatever became of the first call.
C1_EveryLaterCallFails ==
  [][(IsRunCall /\ pc # "idle") => pc' = "rejected"]_vars

\* C1, amended: a call of run() on an instance whose run has completed (done is
\* set) fails and changes nothing; a call on an instance whose earlier run ended
\* early or raised an error is accepted and starts a new run.
C1_CallAfterDoneFails ==
  [][IsRunCall =>
       IF done THEN pc' = "rejected" /\ UNCHANGED <<instance, file, inflight, frame, hist>>
       ELSE /\ pc' = "ugrad"
            /\ \E call \in inflight' :
                 call.op = "getUgradRequirements" /\ call.run = runs']_vars

\* a call of run() was rejected
C1_Witness == pc = "rejected" /\ done

\* C2: get() throws whenever run() has not reached Done, and returns the maps
\* only after run() has completed every stage: done is set only by the step
\* that ends the last stage, and a call of get() returns exactly when it is set.
C2_GetFailsBeforeDone ==
  [][/\ done' => pc' \in {"done", "rejected"}
     /\ (lastGet' # lastGet /\ lastGet' = "maps") => done /\ pc \in {"done", "rejected"}
     /\ (lastGet' # lastGet /\ lastGet' = "threw") => ~done]_vars

\* get() threw on an instance whose run raised an error
C2_Witness == lastGet = "threw" /\ pc = "threw"

\* the stage of run() a position belongs to: 1 UniversityRequirements,
\* 2 Vocabularies, 3 Discovery, 4 Minors, 5 Majors, 6 Specializations,
\* 7 PostProcess and Done (one step, lines 375-399)
StageNumber(p) ==
  CASE p = "idle" -> 0
    [] p = "ugrad" -> 1
    [] p \in {"degrees", "majors"} -> 2
    [] p = "discovery" -> 3
    [] p \in {"minors", "minorLoop", "minorAudit"} -> 4
    [] p \in {"programLoop", "majorAudit"} -> 5
    [] p \in {"cacheRead", "specializations", "specLoop", "specAudit", "cacheWrite"} -> 6
    [] p = "done" -> 7

\* the positions of an activation that has not ended early or raised
InRun(p) == p \notin {"bootstrap", "failed", "returned", "threw", "rejected"}

\* the stage an external call belongs to, by what it asks for
StageOfCall(call) ==
  CASE call.op = "getUgradRequirements" -> 1
    [] call.op = "getMapping" /\ call.args \in {<<"degrees">>, <<"majors">>} -> 2
    [] call.op \in {"awardTypes", "reports"} -> 3
    [] call.op = "getMapping" /\ call.args = <<"minors">> -> 4
    [] call.op = "getMinorAudit" -> 4
    [] call.op = "getMajorAudit" -> 5
    [] call.op = "getMapping" /\ call.args = <<"specializations">> -> 6
    [] call.op = "getSpecAudit" -> 6

OwnCalls == {call \in inflight : call.run = runs}

\* C4: when getUgradRequirements yields nothing the run is aborted: the
\* activation returns at once, with no call in flight, done not set and no
\* field or file changed, and from then on nothing is issued or stored until
\* run() is called again or a new instance is made; get() fails.
C4_NoRequirementsAborts ==
  [][/\ (hist'.ugrad = "absent" /\ hist.ugrad # "absent")
          => pc' = "returned" /\ UNCHANGED <<instance, file>>
     /\ hist'.ugrad = "absent" => pc' = "returned" /\ ~done' /\ OwnCalls' = {}
     /\ (hist.ugrad = "absent" /\ hist'.ugrad = "absent")
          => /\ UNCHANGED <<instance, file>>
             /\ lastGet' \in {lastGet, "threw"}]_vars

\* the run returned early and get() was called after it
C4_Witness == pc = "returned" /\ hist.ugrad = "absent" /\ lastGet = "threw"

\* the specialization the loop of lines 287-373 is at
CurrentSpec == knownSpecializations[frame.i][1]

\* the loop of lines 287-373 has gone through every known specialization
SpecializationsEnded == pc = "specLoop" /\ frame.i > Len(knownSpecializations)

\* the identity of the parent run() reported for a specialization
ReportedParent(code) ==
  ProgramId(Deref(parsedPrograms, MapGet(parsedSpecializations, code).parent))

\* C5: for every code that is a key of the cache as loaded, the run issues no
\* specialization audit; for a non-null entry the parent it reports is the one
\* stored in the cache, which is the one the file holds, which is the one the
\* run that resolved the code reported when it wrote the file.
C5_CacheHitNoRequestSameParent ==
  [][/\ hist'.hasLoaded =>
          \A code \in DOMAIN hist'.loaded :
            /\ code \notin hist'.requested
            /\ \A call \in OwnCalls' : call.op = "getSpecAudit" => call.args[4] # code
            /\ (hist'.loaded[code].kind # "null" /\ MapHas(parsedSpecializations', code))
                 => ReportedParent(code)' = ProgramId(hist'.loaded[code].parent)
            /\ (hist'.loaded[code].kind # "null" /\ SpecializationsEnded'
                  /\ MapHas(knownSpecializations', code))
                 => MapHas(parsedSpecializations', code)
     /\ (~hist.hasLoaded /\ hist'.hasLoaded) =>
          /\ DOMAIN hist'.loaded = DOMAIN file.object
          /\ \A code \in DOMAIN file.object :
               IF file.object[code].json = "null" THEN hist'.loaded[code].kind = "null"
               ELSE /\ hist'.loaded[code].kind # "null"
                    /\ ProgramId(hist'.loaded[code].parent)
                         = ProgramId(file.object[code].parent)
     /\ (pc = "cacheWrite" /\ pc' = "specLoop" /\ MapHas(parsedSpecializations, CurrentSpec))
          => /\ CurrentSpec \in DOMAIN file'.object
             /\ file'.object[CurrentSpec].json = "object"
             /\ ProgramId(file'.object[CurrentSpec].parent) = ReportedParent(CurrentSpec)]_vars

\* a later run found the entry of 161A in the cache and reported it
C5_Witness ==
  /\ runs = 2 /\ pc = "done"
  /\ "161A" \in DOMAIN hist.loaded /\ hist.loaded["161A"].kind # "null"
  /\ MapHas(parsedSpecializations, "161A")

\* the entry of the file says what the entry of the cache in memory says
EntryAgrees(json, entry) ==
  IF entry.kind = "null" THEN json = JsonNull
  ELSE /\ json.json = "object"
       /\ ProgramId(json.parent) = ProgramId(Deref(parsedPrograms, entry))
       /\ json.block = entry.block

\* the codes whose entry the run holds: loaded at its start or resolved by it
HeldEntries == DOMAIN hist.loaded \cup hist.resolved

\* the file holds the entries the run holds, but for the one in progress
FileHoldsHeldEntries ==
  hist.hasLoaded =>
    /\ HeldEntries \ DOMAIN file.object
         \subseteq (IF pc = "cacheWrite" THEN {CurrentSpec} ELSE {})
    /\ \A code \in HeldEntries \cap DOMAIN file.object :
         EntryAgrees(file.object[code], specializationCache[code])

C7_WritesOnlyForNewlyResolved ==
  [][/\ (file' # file \/ hist'.wrote \ hist.wrote # {})
          => /\ pc = "cacheWrite" /\ hist.hasLoaded
             /\ hist'.wrote = hist.wrote \cup {CurrentSpec}
             /\ CurrentSpec \in hist.resolved \ DOMAIN hist.loaded
     /\ (hist'.hasLoaded /\ MapKeys(knownSpecializations') \subseteq DOMAIN hist'.loaded
           /\ pc' \in {"specLoop", "done"})
          => hist'.wrote = {} /\ Deserialize(file') = hist'.loaded]_vars

\* a run that found both known specializations in the cache has finished
C7_Witness ==
  /\ pc = "done" /\ hist.hasLoaded /\ knownSpecializations # EmptyMap
  /\ MapKeys(knownSpecializations) \subseteq DOMAIN hist.loaded
  /\ hist.wrote = {}

\* the codes the cache as loaded holds a null entry for
LoadedNull == {code \in DOMAIN hist.loaded : hist.loaded[code].kind = "null"}

\* what a run that loaded a null entry does about its code: nothing
NullEntriesLeftAlone ==
  hist.hasLoaded =>
    \A code \in LoadedNull :
      /\ code \notin hist.requested /\ code \notin hist.resolved
      /\ \A call \in OwnCalls : call.op = "getSpecAudit" => call.args[4] # code
      /\ specializationCache[code] = NullEntry
      /\ ~MapHas(parsedSpecializations, code)

\* C8: an iteration that ends its search without a block, having asked every
\* candidate or having none, does not raise: it sets a null entry and goes on
\* to the write, which puts the null entry in the file; a run that loads a
\* null entry neither searches nor asks for that code.
C8_UnresolvedIsCachedAsNull ==
  [][/\ (pc \in {"specLoop", "specAudit"} /\ pc' = "cacheWrite"
           /\ ~MapHas(parsedSpecializations', CurrentSpec))
          => /\ specializationCache' = CacheSet(specializationCache, CurrentSpec, NullEntry)
             /\ CurrentSpec \in hist'.resolved
     /\ (pc = "cacheWrite" /\ pc' = "specLoop"
           /\ specializationCache[CurrentSpec] = NullEntry)
          => /\ CurrentSpec \in DOMAIN file'.object
             /\ file'.object[CurrentSpec] = JsonNull
     /\ (~hist.hasLoaded /\ hist'.hasLoaded)
          => LoadedNull' = {code \in DOMAIN file.object : file.object[code] = JsonNull}
     /\ NullEntriesLeftAlone']_vars

\* a later run loaded the null entry of a specialization and finished
C8_Witness == pc = "done" /\ runs = 2 /\ LoadedNull # {}

\* how many times a code occurs in a specs list
Occurrences(specs, code) == Cardinality({k \in 1..Len(specs) : specs[k] = code})

\* the majors among the run's parsed programs with the identity of the parent
\* reported for a specialization
ParsedParents(code) ==
  {k \in 1..Len(parsedPrograms) :
     ProgramId(parsedPrograms[k][2].major) = ReportedParent(code)}

\* C9: at the end of the Specializations stage the code of every resolved
\* specialization, resolved from the cache or by the heuristics, is exactly
\* once in the specs list of its parent major among the parsed programs.
C9_ResolvedCodeInParentSpecs ==
  SpecializationsEnded =>
    \A code \in MapKeys(parsedSpecializations) :
      /\ ParsedParents(code) # {}
      /\ \A k \in ParsedParents(code) :
           Occurrences(parsedPrograms[k][2].major.specs, code) = 1

\* the same for the specializations the run resolved by the heuristics: this
\* is what lines 317 and 335 do
ResolvedByHeuristicsInParentSpecs ==
  SpecializationsEnded =>
    \A code \in MapKeys(parsedSpecializations) \cap hist.resolved :
      /\ ParsedParents(code) # {}
      /\ \A k \in ParsedParents(code) :
           Occurrences(parsedPrograms[k][2].major.specs, code) = 1

\* a run resolved 161A from the cache and parsed the parent major again, and
\* the specs list of that major does not hold the code
CacheHitLeavesSpecsEmpty ==
  /\ SpecializationsEnded
  /\ MapHas(parsedSpecializations, "161A") /\ "161A" \in DOMAIN hist.loaded
  /\ ParsedParents("161A") # {}
  /\ \A k \in ParsedParents("161A") :
       Occurrences(parsedPrograms[k][2].major.specs, "161A") = 0

\* scrapePrograms is at work
InScrapePrograms == pc \in {"programLoop", "majorAudit"}

\* the titles the audits answered so far returned, first occurrences in order
TitlesYielded == SelectSeq(Distinct(hist.yielded), LAMBDA t : t # Null)

\* the place in discovery order of the first triplet that yielded a title
FirstYielding(title) ==
  CHOOSE k \in 1..Len(hist.yielded) :
    /\ hist.yielded[k] = title
    /\ \A j \in 1..(k - 1) : hist.yielded[j] # title

\* the map of scrapePrograms holds one program per title yielded, in the
\* order of first occurrence, each built from the first triplet yielding it
OneProgramPerTitle ==
  InScrapePrograms =>
    /\ Len(frame.ret) = Len(TitlesYielded)
    /\ \A k \in 1..Len(frame.ret) :
         LET title == frame.ret[k][1]
             major == frame.ret[k][2].major
             t == frame.validDegrees[FirstYielding(title)]
         IN /\ title = TitlesYielded[k]
            /\ major.name = title
            /\ <<major.school, major.code, major.degreeType>> = t
            /\ major.programType = "MAJOR"

\* C10: majors are deduplicated by the title of the major block: the map
\* holds at most one program per title, the one built from the first triplet
\* in discovery order that yielded it; a later triplet yielding a title
\* already there leaves the map as it is, and the map is what the run stores.
C10_FirstTitleWins ==
  [][/\ OneProgramPerTitle'
     /\ (InScrapePrograms /\ InScrapePrograms')
          => /\ \A k \in 1..Len(frame.ret) :
                  Len(frame'.ret) >= k /\ frame'.ret[k] = frame.ret[k]
             /\ (Len(hist'.yielded) > Len(hist.yielded)
                   /\ MapHas(frame.ret, hist'.yielded[Len(hist'.yielded)]))
                  => frame'.ret = frame.ret
     /\ (pc = "programLoop" /\ pc' = "cacheRead") => parsedPrograms' = frame.ret]_vars

\* two triplets yielded the same title and the programs were stored
C10_Witness ==
  /\ pc = "cacheRead"
  /\ hist.yielded = <<"Major in Chemistry", "Major in Chemistry">>
  /\ Len(parsedPrograms) = 1
  /\ parsedPrograms[1][2].major.degreeType = "BS"

\* the requirement list of the major stored under a title
RequirementsOf(programs, title) == MapGet(programs, title).major.requirements

\* C11: when "Major in Art History" was parsed and AHGEO and AHPER were both
\* resolved, the step that ends the run takes both out of the specializations
\* and leaves the major with its own requirements followed by those of AHGEO
\* and then those of AHPER; nothing changes them afterwards.
C11_ArtHistoryMerged ==
  [][/\ (/\ SpecializationsEnded /\ pc' = "done"
         /\ MapHas(parsedPrograms, "Major in Art History")
         /\ MapHas(parsedSpecializations, "AHGEO")
         /\ MapHas(parsedSpecializations, "AHPER"))
          => /\ ~MapHas(parsedSpecializations', "AHGEO")
             /\ ~MapHas(parsedSpecializations', "AHPER")
             /\ RequirementsOf(parsedPrograms', "Major in Art History")
                  = RequirementsOf(parsedPrograms, "Major in Art History")
                      \o MapGet(parsedSpecializations, "AHGEO").program.requirements
                      \o MapGet(parsedSpecializations, "AHPER").program.requirements
     /\ (pc = "done" /\ pc' = "done")
          => UNCHANGED <<parsedPrograms, parsedSpecializations>>]_vars

\* the run is complete and the major holds the three requirement lists
C11_Witness ==
  /\ pc = "done"
  /\ MapHas(parsedPrograms, "Major in Art History")
  /\ Len(RequirementsOf(parsedPrograms, "Major in Art History")) = 3
  /\ parsedSpecializations = EmptyMap

\* the calendar year of an end term: its two-digit year, 50 to 99 in the
\* twentieth century and 0 to 49 in the twenty-first
TermYear(endTermYyyyst) ==
  IF TwoDigitYear(endTermYyyyst) >= 50 THEN 1900 + TwoDigitYear(endTermYyyyst)
  ELSE 2000 + TwoDigitYear(endTermYyyyst)

HasEndTerm(ent) == ent.major.endTermYyyyst \notin {Null, ""}

\* what discovery emits for the report entries whose index is in `included`
RECURSIVE Emitted(_, _, _)
Emitted(reports, included, k) ==
  IF k > Len(reports) THEN << >>
  ELSE (IF k \in included THEN TripletsOf(degrees, world.awardTypes, reports[k]) ELSE << >>)
       \o Emitted(reports, included, k + 1)

\* the report entries with a degree code and a major of the vocabulary
Candidates ==
  {k \in 1..Len(world.reports) :
     /\ world.reports[k].degree.degreeCode # Null
     /\ world.reports[k].major.majorCode \in majorPrograms}

\* C12: the triplets discovery returns come from a selection of the report
\* entries (those with a degree code and a major of the vocabulary) that
\* holds no entry whose end term lies in a year before the cutoff and holds
\* every entry without end term
C12_CutoffFilter ==
  pc = "minors" =>
    \E included \in SUBSET Candidates :
      /\ \A k \in Candidates :
           LET ent == world.reports[k] IN
             /\ (HasEndTerm(ent) /\ TermYear(ent.major.endTermYyyyst) < CutoffYear)
                  => k \notin included
             /\ ~HasEndTerm(ent) => k \in included
      /\ frame.validDegrees = Emitted(world.reports, included, 1)

C12_Witness ==
  /\ pc = "minors"
  /\ world.reports = <<Report("U", "201", "F92", "1"), Report("U", "201", Null, "1")>>
  /\ frame.validDegrees = << <<"U", "201", "BS">> >>


\* the report entries that pass the filters as documented: a degree code, a
\* major of the vocabulary, and the end term absent or not before the cutoff
PassingAsDocumented ==
  {k \in Candidates :
     \/ ~HasEndTerm(world.reports[k])
     \/ TermYear(world.reports[k].major.endTermYyyyst) >= CutoffYear}

\* C13: discovery returns, in the order of the report, the triplets (school,
\* major, degree key) of the entries that pass the filters (end term absent or
\* not before the cutoff), one for each degree key whose name is the entry's
\* award-type short name up to case and the alias, and nothing else
C13_EmitsTripletsOfPassingEntries ==
  pc = "minors" => frame.validDegrees = Emitted(world.reports, PassingAsDocumented, 1)

\* no report entry has an end term in the cutoff year or later
NoLateEndTerm ==
  \A k \in 1..Len(world.reports) :
    HasEndTerm(world.reports[k])
      => TermYear(world.reports[k].major.endTermYyyyst) < CutoffYear

\* without end terms in the cutoff year or later, discovery emits just those
\* triplets
EmitsTripletsWithoutLateEndTerm ==
  NoLateEndTerm => C13_EmitsTripletsOfPassingEntries

\* the documented case: one entry U/201 with degree 1, one degree named "b.s."
ScenarioEmitsOneTriplet ==
  (/\ pc = "minors"
   /\ world.reports = <<Report("U", "201", Null, "1")>>
   /\ world.degrees = << <<"BS", "b.s.">>, <<"MIM", "M.I.M.">> >>)
    => frame.validDegrees = << <<"U", "201", "BS">> >>

\* C14: a report entry without matching degree, whatever the reason (a degree
\* code the award types do not list included), is no error: discovery raises
\* nothing of its own and returns the triplets of the other entries
C14_ZeroMatchIsNoError ==
  /\ hist.raised # "TypeError"
  /\ (pc = "minors" /\ NoLateEndTerm)
       => frame.validDegrees = Emitted(world.reports, PassingAsDocumented, 1)

\* every degree code of the report is one the award types list
DegreeCodesListed ==
  \A k \in 1..Len(world.reports) :
    \/ world.reports[k].degree.degreeCode = Null
    \/ MapHas(awardTypesMap(world.awardTypes), world.reports[k].degree.degreeCode)

\* with every degree code listed, an entry without matching degree is dropped
\* and discovery completes
ListedCodeWithoutMatchIsDropped ==
  DegreeCodesListed => C14_ZeroMatchIsNoError

\* the calls a step sends
Issued == {call \in inflight' : call \notin inflight}

AuditCalls(calls) == {call \in calls : call.op \in ClientOperations}

\* C16: a client operation returns only when the delay after its request is
\* over (it leaves earlier only by the exception of a rejected fetch, which
\* ends the run), and a request to the audit upstream is sent only when no
\* other one is out or in its delay
C16_DelayAfterEveryAuditRequest ==
  [][/\ \A call \in AuditCalls(inflight) :
          (call.phase = "fetch" /\ call \notin inflight')
            => \/ Sleeping(call) \in inflight'
               \/ hist'.raised = "fetch" /\ pc' \in {"threw", "failed"}
               \/ pc' = "bootstrap" /\ pc # "bootstrap"
     /\ AuditCalls(Issued) # {} => AuditCalls(inflight') = AuditCalls(Issued)]_vars

C16_Witness ==
  /\ pc = "majors"
  /\ inflight = {Sleeping(Call("getMapping", <<"majors">>, runs))}

\* Scraper.new has returned an instance
Bootstrapped == pc \notin {"bootstrap", "failed"}

\* the probe for the forward academic year gives an audit
ProbeSucceeds == world.session = "valid" /\ world.forwardYear

\* bootstrap takes the forward academic year when the probe gives an audit
\* and the prior one otherwise
BootstrapSelectsYear ==
  Bootstrapped =>
    catalogYear = IF ProbeSucceeds THEN ForwardCatalogYear ELSE PriorCatalogYear

\* C17: bootstrap takes the forward academic year when the probe succeeds for
\* it and the prior year otherwise, and with a session that gives no audit for
\* either year it fails: no instance is returned and no stage of run() starts
C17_BootstrapFailsWithoutSession ==
  /\ BootstrapSelectsYear
  /\ world.session # "valid" => ~Bootstrapped

\* with a session that is not valid, bootstrap returns an instance set to the
\* prior year, run() sends its first request and returns without result
InvalidSessionReachesRun ==
  (world.session # "valid" /\ Bootstrapped)
    => /\ catalogYear = PriorCatalogYear
       /\ pc \in {"idle", "ugrad", "returned", "threw"}

\* the blocks an operation returned
ReturnedBlocks(r) ==
  CASE r.op = "getUgradRequirements" ->
         IF r.result.found THEN {r.result.UC, r.result.GE, r.result.CHC4} \ {NoBlock} ELSE {}
    [] r.op = "getMajorAudit" ->
         IF r.result.found THEN {r.result.college, r.result.major} \ {NoBlock} ELSE {}
    [] OTHER -> {r.result} \ {NoBlock}

\* the operation returned absence: undefined
ReturnedAbsence(r) ==
  CASE r.op \in {"getUgradRequirements", "getMajorAudit"} -> ~r.result.found
    [] OTHER -> r.result = NoBlock

\* the block is one the request asked for: the major or the college of a major
\* audit, the minor, the specialization (under either of its types)
Requested(r, b) ==
  CASE r.op = "getMajorAudit" ->
         \/ b.requirementType = "MAJOR" /\ b.requirementValue = r.args[1]
         \/ b.requirementType = "COLLEGE" /\ b.requirementValue = r.args[2]
    [] r.op = "getMinorAudit" ->
         b.requirementType = "MINOR" /\ b.requirementValue = r.args[1]
    [] r.op = "getSpecAudit" ->
         b.requirementType \in {"SPEC", "OTHER"} /\ b.requirementValue = r.args[1]
    [] r.op = "getUgradRequirements" ->
         \/ b.requirementType \in {"SCHOOL", "PROGRAM"}
         \/ b.requirementType = "OTHER" /\ b.requirementValue = "CHP"

NoMajorBlock ==
  /\ Len(hist'.yielded) = Len(hist.yielded) + 1
  /\ hist'.yielded[Len(hist'.yielded)] = Null

\* the same for a minor code
NoMinorBlock ==
  /\ Len(hist'.minorYielded) = Len(hist.minorYielded) + 1
  /\ hist'.minorYielded[Len(hist'.minorYielded)] = Null

\* C19: an audit without block for a major triplet or a minor code adds
\* nothing, changes and removes nothing already stored, raises nothing, and
\* the loop goes on with the next triplet or code
C19_MissingBlockSkipsProgram ==
  [][/\ NoMajorBlock
          => /\ frame'.ret = frame.ret
             /\ frame'.i = frame.i + 1
             /\ pc' = "programLoop"
             /\ hist'.raised = "none"
             /\ UNCHANGED instance
     /\ NoMinorBlock
          => /\ frame'.i = frame.i + 1
             /\ pc' = "minorLoop"
             /\ hist'.raised = "none"
             /\ UNCHANGED instance]_vars

C19_Witness ==
  /\ pc = "programLoop"
  /\ Len(hist.yielded) = 2
  /\ hist.yielded[1] # Null
  /\ hist.yielded[2] = Null
  /\ MapKeys(frame.ret) = {hist.yielded[1]}
  /\ hist.minorYielded = <<Null>>

\* C20: when a fetch rejects, the exception leaves run() (or Scraper.new): no
\* request is sent again or further, the activation is over without `done`,
\* and get() fails, for as long as run() is not called anew
C20_FetchExceptionEndsRun ==
  [][hist'.raised = "fetch"
       => /\ pc' \in {"threw", "failed"}
          /\ Issued = {}
          /\ ~done'
          /\ lastGet' # "maps"]_vars

C20_Witness ==
  /\ hist.raised = "fetch"
  /\ pc = "threw"
  /\ lastGet = "threw"
  /\ parsedUgradRequirements # EmptyMap
  /\ \A call \in inflight : call.op \notin ClientOperations

\* the entry a load gives is equivalent to the entry of the cache in memory:
\* both null, or the same parent identity and the same block
EquivalentEntry(loaded, entry, programs) ==
  IF entry.kind = "null" THEN loaded.kind = "null"
  ELSE /\ loaded.kind # "null"
       /\ ProgramId(Deref(programs, loaded)) = ProgramId(Deref(programs, entry))
       /\ loaded.block = entry.block

WithCollege == {k \in 1..Len(parsedPrograms) : parsedPrograms[k][2].college # NoProgram}

\* C22: no two college blocks handed to the database have equal requirements,
\* and two majors whose college requirements are equal have the same block
C22_CollegeBlocksDeduplicated ==
  persisted.built =>
    /\ \A i, j \in 1..Len(persisted.collegeBlocks) :
         persisted.collegeBlocks[i].requirements = persisted.collegeBlocks[j].requirements
           => i = j
    /\ \A a, b \in WithCollege :
         parsedPrograms[a][2].college.requirements = parsedPrograms[b][2].college.requirements
           => persisted.majorData[a].collegeBlockIndex = persisted.majorData[b].collegeBlockIndex

\* what the code keeps apart are blocks that differ in name or requirements:
\* no two blocks are equal in both, and every major with a college points at
\* the block with its college's name and requirements
DeduplicatedByNameAndRequirements ==
  persisted.built =>
    /\ \A i, j \in 1..Len(persisted.collegeBlocks) :
         persisted.collegeBlocks[i] = persisted.collegeBlocks[j] => i = j
    /\ \A a \in WithCollege :
         /\ persisted.majorData[a].collegeBlockIndex \in 1..Len(persisted.collegeBlocks)
         /\ persisted.collegeBlocks[persisted.majorData[a].collegeBlockIndex]
              = WouldInsert(parsedPrograms[a][2].college)

\* C23: every requirement tree the parser produces is well formed: its leaves
\* are course or exam requirements, none of its groups is without children,
\* and an entry of unknown shape is left out, the run going on
RECURSIVE WellFormed(_)

WellFormed(node) ==
  \/ node.type \in {"CourseRequirement", "ExamRequirement"}
  \/ /\ node.type \in GroupingDirectives
     /\ Len(node.children) > 0
     /\ \A k \in 1..Len(node.children) : WellFormed(node.children[k])

RECURSIVE CountKnownLeaves(_)

\* the course and exam rules of a rule array, nested ones included
CountKnownLeaves(ruleArray) ==
  IF Len(ruleArray) = 0 THEN 0
  ELSE (IF Head(ruleArray).ruleType \in {"Course", "Exam"} THEN 1 ELSE 0)
         + CountKnownLeaves(Head(ruleArray).ruleArray)
         + CountKnownLeaves(Tail(ruleArray))

RECURSIVE CountLeaves(_)

\* the leaves of a list of requirement trees
CountLeaves(nodes) ==
  IF Len(nodes) = 0 THEN 0
  ELSE (IF Head(nodes).type \in GroupingDirectives THEN CountLeaves(Head(nodes).children) ELSE 1)
         + CountLeaves(Tail(nodes))

C23_RequirementTreesWellFormed ==
  MapHas(parsedUgradRequirements, "UC") =>
    LET trees == MapGet(parsedUgradRequirements, "UC") IN
      /\ \A k \in 1..Len(trees) : WellFormed(trees[k])
      /\ CountLeaves(trees) = CountKnownLeaves(world.ucRules)

\* a directive around an unknown entry and a course rule has been parsed: the
\* group holds the course requirement alone
C23_Witness ==
  /\ world.ucRules = <<Rule("AllOf", "Group", <<Rule("Unknown", "Remark", << >>),
                                                 Rule("Course", "CHEM 1A", << >>)>>)>>
  /\ MapHas(parsedUgradRequirements, "UC")
  /\ MapGet(parsedUgradRequirements, "UC") =
       <<[type |-> "AllOf",
          children |-> <<[type |-> "CourseRequirement", courseId |-> "CHEM 1A"]>>]>>

\* C24: for a specialization code that is not cached and is not the
\* exception, the candidate parents are exactly the parsed programs whose code
\* is the specialization code without its trailing upper-case letter; they are
\* asked about one at a time in the order they were parsed, the first whose
\* audit has a block becomes the parent and none after it is asked about, and
\* no program of another code is asked about
WithoutTrailingLetter(specCode) ==
  SubSeq(Chars(specCode), 1, Len(Chars(specCode)) - 1)

HasTrailingLetter(specCode) ==
  /\ Len(Chars(specCode)) > 1
  /\ \E k \in 1..Len(UpperAlphabet) : UpperAlphabet[k] = Chars(specCode)[Len(Chars(specCode))]

\* the titles of the parsed programs of the code a specialization code points
\* at, in parse order
SuffixCandidates(specCode) ==
  LET titles == [k \in 1..Len(parsedPrograms) |-> parsedPrograms[k][1]]
  IN SelectSeq(titles,
               LAMBDA t : /\ HasTrailingLetter(specCode)
                          /\ Chars(MapGet(parsedPrograms, t).major.code)
                               = WithoutTrailingLetter(specCode))

\* the requests for a specialization audit that a step sends
NewSpecAuditCalls(before, after) ==
  {call \in after \ before : call.op = "getSpecAudit" /\ call.phase = "fetch"}

C24_SuffixCandidatesAskedInOrder ==
  [][(pc \in {"specLoop", "specAudit"} /\ frame.i <= Len(knownSpecializations)
        /\ knownSpecializations[frame.i][1] # "OACSC") =>
      LET specCode == knownSpecializations[frame.i][1]
          candidates == SuffixCandidates(specCode)
      IN /\ \A call \in NewSpecAuditCalls(inflight, inflight') :
              /\ specCode \notin DOMAIN specializationCache
              /\ specCode \notin DOMAIN specializationCache'
              /\ frame'.majorCandidates = candidates
              /\ frame'.c = (IF pc = "specLoop" THEN 1 ELSE frame.c + 1)
              /\ frame'.c <= Len(candidates)
              /\ call.args[3] = MapGet(parsedPrograms, candidates[frame'.c]).major.code
              /\ call.args[1] = MapGet(parsedPrograms, candidates[frame'.c]).major.degreeType
              /\ call.args[4] = specCode
         /\ (pc = "specLoop" /\ specCode \notin DOMAIN specializationCache
               /\ candidates # << >>) =>
              ~(pc' = "cacheWrite" \/ (pc' = "specLoop" /\ frame'.i = frame.i + 1))
         /\ (pc = "specAudit" /\ pc' \in {"cacheWrite", "specLoop"}) =>
              /\ specCode \in DOMAIN specializationCache'
              /\ IF specializationCache'[specCode].kind = "null"
                 THEN frame.c = Len(candidates)
                 ELSE /\ specializationCache'[specCode].kind = "live"
                      /\ specializationCache'[specCode].title = candidates[frame.c]]_vars

\* the second of two parsed programs of code 161 is being asked about 161A
C24_Witness ==
  /\ pc = "specAudit"
  /\ knownSpecializations[frame.i][1] = "161A"
  /\ Len(SuffixCandidates("161A")) = 2
  /\ frame.c = 2
  /\ Len(parsedPrograms) = 2

\* C25: the specialization OACSC has the program stored as "Major in
\* Chemistry" as its only candidate, whatever the codes of the parsed programs;
\* when no program is stored under that title there is no candidate, no
\* request is made for OACSC and it is recorded as unresolved
C25_ChemistryCertificationException ==
  [][(pc \in {"specLoop", "specAudit"} /\ frame.i <= Len(knownSpecializations)
        /\ knownSpecializations[frame.i][1] = "OACSC") =>
      /\ \A call \in NewSpecAuditCalls(inflight, inflight') :
           /\ pc = "specLoop"
           /\ "OACSC" \notin DOMAIN specializationCache
           /\ MapHas(parsedPrograms, "Major in Chemistry")
           /\ frame'.majorCandidates = <<"Major in Chemistry">>
           /\ call.args[3] = MapGet(parsedPrograms, "Major in Chemistry").major.code
           /\ call.args[4] = "OACSC"
      /\ (pc = "specLoop" /\ "OACSC" \notin DOMAIN specializationCache
            /\ ~MapHas(parsedPrograms, "Major in Chemistry")
            /\ (pc' = "cacheWrite" \/ (pc' = "specLoop" /\ frame'.i = frame.i + 1))) =>
           /\ inflight' = inflight
           /\ specializationCache' = CacheSet(specializationCache, "OACSC", NullEntry)
           /\ ~MapHas(parsedSpecializations', "OACSC")
      /\ (pc = "specLoop" /\ "OACSC" \notin DOMAIN specializationCache
            /\ MapHas(parsedPrograms, "Major in Chemistry")) =>
           ~(pc' = "cacheWrite" \/ (pc' = "specLoop" /\ frame'.i = frame.i + 1))
      /\ (pc = "specAudit" /\ pc' \in {"cacheWrite", "specLoop"}) =>
           /\ "OACSC" \in DOMAIN specializationCache'
           /\ specializationCache'["OACSC"].kind # "null" =>
                /\ specializationCache'["OACSC"].kind = "live"
                /\ specializationCache'["OACSC"].title = "Major in Chemistry"]_vars

\* OACSC has been recorded as unresolved without a request, a program of code
\* 161 being parsed under another title
C25_Witness ==
  /\ Len(parsedPrograms) > 0
  /\ ~MapHas(parsedPrograms, "Major in Chemistry")
  /\ "OACSC" \in hist.resolved
  /\ "OACSC" \notin hist.requested
  /\ specializationCache["OACSC"].kind = "null"

\* C26: after a completed run the degree index has exactly one entry per
\* distinct degree type of the parsed programs, each mapped to its display
\* name in the degree vocabulary; a degree of the vocabulary that no parsed
\* program uses is not in the index
DegreeTypesParsed == {parsedPrograms[k][2].major.degreeType : k \in 1..Len(parsedPrograms)}

C26_DegreeIndexOfUsedDegrees ==
  done =>
    /\ {degreesAwarded[k][1] : k \in 1..Len(degreesAwarded)} = DegreeTypesParsed
    /\ \A j, k \in 1..Len(degreesAwarded) :
         degreesAwarded[j][1] = degreesAwarded[k][1] => j = k
    /\ \A k \in 1..Len(degreesAwarded) :
         /\ MapHas(degrees, degreesAwarded[k][1])
         /\ degreesAwarded[k][2] = MapGet(degrees, degreesAwarded[k][1])

\* a program of the degree BS is parsed and none of the degree MS, which the
\* vocabulary has: the index holds BS alone
C26_Witness ==
  /\ done
  /\ Len(parsedPrograms) = 1
  /\ DegreeTypesParsed = {"BS"}
  /\ MapHas(degrees, "MS")
  /\ degreesAwarded = << <<"BS", "B.S.">> >>

\* C27: after a completed run every specialization of the final set has a
\* parent that is one of the programs parsed in the same run, so the majorId
\* of every specialization row is the id of a major row of the same run; this
\* holds for the specializations resolved from the cache as well
MajorIds == {persisted.majorData[k].id : k \in 1..Len(persisted.majorData)}

C27_SpecializationParentIsParsedMajor ==
  persisted.built =>
    \A k \in 1..Len(persisted.specData) : persisted.specData[k].majorId \in MajorIds

\* the same of the specializations a run resolved by its own requests
ParentParsedUnlessCached ==
  persisted.built =>
    \A k \in 1..Len(persisted.specData) :
      \/ persisted.specData[k].majorId \in MajorIds
      \/ /\ parsedSpecializations[k][1] \in DOMAIN hist.loaded
         /\ hist.loaded[parsedSpecializations[k][1]].kind = "copy"

\* C28: the majors handed to persistence have pairwise distinct ids: no two
\* programs parsed in one run and stored under different titles give the same
\* `degreeType-code`
C28_MajorIdsDistinct ==
  persisted.built =>
    \A j, k \in 1..Len(persisted.majorData) :
      persisted.majorData[j].id = persisted.majorData[k].id => j = k

\* the same of the names of the major rows
MajorNamesDistinct ==
  persisted.built =>
    \A j, k \in 1..Len(persisted.majorData) :
      persisted.majorData[j].name = persisted.majorData[k].name => j = k

\* C29: when "Major in Art History" was not parsed, or AHGEO or AHPER was not
\* resolved, the post-processing step changes nothing: the parsed programs,
\* their specs and requirements included, and the specializations are as the
\* loop over the specializations left them, a resolved AHGEO or AHPER among
\* them
C29_PostProcessFrame ==
  [][(pc = "specLoop" /\ pc' = "done"
        /\ ~(/\ MapHas(parsedPrograms, "Major in Art History")
             /\ MapHas(parsedSpecializations, "AHGEO")
             /\ MapHas(parsedSpecializations, "AHPER"))) =>
       /\ parsedPrograms' = parsedPrograms
       /\ parsedSpecializations' = parsedSpecializations]_vars

\* a run has ended with AHGEO resolved and AHPER not: AHGEO is in the final
\* set and its parent lists it
C29_Witness ==
  /\ done
  /\ MapHas(parsedSpecializations, "AHGEO")
  /\ ~MapHas(parsedSpecializations, "AHPER")
  /\ MapHas(parsedPrograms, "Major in Art History")
  /\ MapGet(parsedPrograms, "Major in Art History").major.specs = <<"AHGEO">>

\* C30: the parsed minors are keyed by the title of the block their audit
\* returned: when the audits of two minor codes return blocks of the same
\* title, one minor is held under that title and it is the one scraped last
MinorsScraped ==
  pc \in {"programLoop", "majorAudit", "cacheRead", "specializations", "specLoop",
          "specAudit", "cacheWrite", "done"}

\* the position of the last minor code whose audit returned a block of the title
LastYielding(title) ==
  CHOOSE k \in 1..Len(hist.minorYielded) :
    /\ hist.minorYielded[k] = title
    /\ \A j \in (k + 1)..Len(hist.minorYielded) : hist.minorYielded[j] # title

C30_LastMinorOfATitleWins ==
  MinorsScraped =>
    /\ {parsedMinorPrograms[k][1] : k \in 1..Len(parsedMinorPrograms)}
         = {hist.minorYielded[k] : k \in 1..Len(hist.minorYielded)} \ {Null}
    /\ \A j, k \in 1..Len(parsedMinorPrograms) :
         parsedMinorPrograms[j][1] = parsedMinorPrograms[k][1] => j = k
    /\ \A k \in 1..Len(parsedMinorPrograms) :
         parsedMinorPrograms[k][2].code = minorPrograms[LastYielding(parsedMinorPrograms[k][1])]

\* both minor audits returned a block titled "Minor in Chemistry": the one
\* minor held is the second code
C30_Witness ==
  /\ done
  /\ hist.minorYielded = <<"Minor in Chemistry", "Minor in Chemistry">>
  /\ Len(parsedMinorPrograms) = 1
  /\ parsedMinorPrograms[1][2].code = "0B0"

====
